---- MODULE Spec2Model ----
(***************************************************************************)
(* Verification model of the smart surveillance system:                    *)
(*   - ZoneManager         (utils/zone_manager.py)                         *)
(*   - AlertManager        (utils/alert_manager.py)                        *)
(*   - IntruderDetectionSystem pipeline (src/intruder_detection.py)        *)
(* Each component has its own specification over the shared variables.     *)
(***************************************************************************)
EXTENDS Integers, Sequences, FiniteSets, TLC

VARIABLES
    clock,      \* time.time() / datetime.now(), in whole seconds
    cfg,        \* AlertManager configuration: enabled, cooldown_seconds, email_enabled,
                \* telegram_enabled
    am,         \* AlertManager.last_alert_time and the holder of AlertManager.alert_lock
    files,      \* the files of alerts_dir: path and content
    callers,    \* the threads calling send_alert: position inside the call and its locals
    sends,      \* the threads started for _send_email_alert / _send_telegram_alert
    hist        \* the send_alert calls decided so far, in the order of their decision

avars == <<clock, cfg, am, files, callers, sends, hist>>

VARIABLES
    edits,      \* calls made so far by the editing thread
    zones,      \* ZoneManager.zones: insertion-ordered dict, as a sequence of zone records
    zlast,      \* the last ZoneManager call: operation, arguments and returned value
    wr,         \* a thread editing the zone table: its position inside update_zone
    rd          \* a thread reading the zone table: its position inside
                \* check_point_in_zones / draw_zones, its dict iterator and what it read

zvars == <<zones, zlast, wr, rd, edits>>

VARIABLES
    running,            \* IntruderDetectionSystem.running
    cap,                \* the camera of self.cap: "open" or "released"
    frame_queue,        \* self.frame_queue
    result_queue,       \* self.result_queue
    frame_count,        \* self.frame_count
    last_alert_time,    \* self.last_alert_time of the detection system
    last_saved_frame,   \* self.last_saved_frame
    pcfg,               \* config['system'] and config['output']
    pc,                 \* position of the main thread and of the three worker threads
    local,              \* the frame or result each worker holds in its loop body
    obs                 \* record of the run: frames fetched, dropped, dequeued, consumed

pvars == <<running, cap, frame_queue, result_queue, frame_count, last_alert_time,
           last_saved_frame, pcfg, pc, local, obs>>

VARIABLES
    det,                \* the last process_results call: the boxes of the frame, the
                        \* points tested and the detections list returned
    ta,                 \* the test_alerts calls: how many, and for the last one the
                        \* sends it made and the results it returned
    pm,                 \* a PerformanceMonitor: its clock, its four windows, its
                        \* timer, and a record of the calls made on it
    cl,                 \* a ConfigLoader and the configuration file: the file, and
                        \* for the last load_config call what it found and returned
    offered,            \* the detections of the send_alert calls of the output
                        \* thread, in the order of the calls
    bm                  \* a run_benchmark call: its arguments, the frames the camera
                        \* still delivers, its loop variables and what it returned

xvars == <<det, ta, pm, cl, offered, bm>>

vars == <<avars, zvars, pvars, xvars>>

(***************************************************************************)
(* Geometry: shapely Point / Polygon over integer pixel coordinates        *)
(***************************************************************************)

\* vertex lists used as inputs
Sq10 == << <<0, 0>>, <<0, 10>>, <<10, 10>>, <<10, 0>> >>
Tri10 == << <<0, 0>>, <<0, 10>>, <<10, 10>> >>
Tri20 == << <<0, 0>>, <<0, 20>>, <<20, 20>> >>
Seg2 == << <<0, 0>>, <<0, 1>> >>

ValidPoints == {Sq10, Tri10, Tri20}
PointLists == ValidPoints \cup {Seg2}

\* three vertices of which the last repeats the first: a ring that is already closed
Closed3 == << <<0, 0>>, <<0, 10>>, <<0, 0>> >>
\* the lists a caller passes to add_zone and update_zone
ArgPointLists == PointLists \cup {Closed3}

\* query points: inside / outside / on the boundary of the polygons above
TestPoints == { <<5, 5>>, <<15, 15>>, <<2, 8>>, <<8, 2>>, <<5, 15>>, <<0, 5>> }

\* shapely Polygon(points): the exterior ring, closed by repeating the first vertex
\* the ring of a vertex list: closed with its first vertex unless it is closed already
Ring(points) == IF points[1] = points[Len(points)] THEN points ELSE Append(points, points[1])

\* Polygon(points) raises ValueError for a ring of fewer than 4 coordinates
PolygonRaises(points) == Len(Ring(points)) < 4

Polygon(points) == [exterior |-> Ring(points)]

Cross(a, b, p) == (b[1] - a[1]) * (p[2] - a[2]) - (b[2] - a[2]) * (p[1] - a[1])

Min2(x, y) == IF x < y THEN x ELSE y
Max2(x, y) == IF x < y THEN y ELSE x

OnSegment(p, a, b) ==
    /\ Cross(a, b, p) = 0
    /\ Min2(a[1], b[1]) <= p[1] /\ p[1] <= Max2(a[1], b[1])
    /\ Min2(a[2], b[2]) <= p[2] /\ p[2] <= Max2(a[2], b[2])

\* the horizontal ray from p to the right crosses the edge a-b
RayCrosses(p, a, b) ==
    /\ (a[2] > p[2]) # (b[2] > p[2])
    /\ LET dy == b[2] - a[2]
           lhs == (p[1] - a[1]) * dy
           rhs == (p[2] - a[2]) * (b[1] - a[1])
       IN IF dy > 0 THEN lhs < rhs ELSE lhs > rhs

\* polygon.contains(point): true for points of the interior only (not the boundary)
Contains(polygon, p) ==
    LET ring == polygon.exterior
        E == 1 .. (Len(ring) - 1)
    IN /\ \A i \in E : ~OnSegment(p, ring[i], ring[i + 1])
       /\ Cardinality({i \in E : RayCrosses(p, ring[i], ring[i + 1])}) % 2 = 1

(***************************************************************************)
(* ZoneManager                                                             *)
(***************************************************************************)

ZoneIds == {"z1", "z2"}
ZoneNames == {"Z"}
Red == <<0, 0, 255>>
Green == <<0, 255, 0>>
Colors == {Red, Green}

\* Python's None as a returned zone id
None == "<None>"

HasZone(zs, zone_id) == \E i \in 1 .. Len(zs) : zs[i].id = zone_id
ZoneIndex(zs, zone_id) == CHOOSE i \in 1 .. Len(zs) : zs[i].id = zone_id

\* self.zones[zone_id] = value: replaces in place for an existing key, appends a new key
SetItem(zs, zone_id, value) ==
    IF HasZone(zs, zone_id)
    THEN [zs EXCEPT ![ZoneIndex(zs, zone_id)] = value]
    ELSE Append(zs, value)

\* del self.zones[zone_id]
DelItem(zs, zone_id) ==
    LET k == ZoneIndex(zs, zone_id)
    IN [i \in 1 .. (Len(zs) - 1) |-> IF i < k THEN zs[i] ELSE zs[i + 1]]

\* zone_data.get(key, default) on a configuration entry
Get(zone_data, key, default) == IF key \in zone_data.keys THEN zone_data[key] ELSE default

\* one iteration of the loop of load_zones
LoadOne(zs, zone_id, zone_data) ==
    LET points == Get(zone_data, "points", <<>>)
    IN IF Len(points) < 3
       THEN zs
       ELSE SetItem(zs, zone_id,
                [id |-> zone_id,
                 name |-> Get(zone_data, "name", zone_id),
                 polygon |-> Polygon(points),
                 points |-> points,
                 color |-> Get(zone_data, "color", Red),
                 alert_enabled |-> Get(zone_data, "alert_enabled", TRUE)])

\* the iteration reaches Polygon(points) with a list shapely refuses
LoadOneRaises(zone_data) ==
    LET points == Get(zone_data, "points", <<>>)
    IN Len(points) >= 3 /\ PolygonRaises(points)

\* the loop of load_zones from entry i on; an entry that raises ends it, the zones
\* stored by the entries before staying in the table
RECURSIVE LoadFrom(_, _, _)
LoadFrom(zs, zones_config, i) ==
    IF i > Len(zones_config)
    THEN zs
    ELSE IF LoadOneRaises(zones_config[i].data)
    THEN zs
    ELSE LoadFrom(LoadOne(zs, zones_config[i].id, zones_config[i].data), zones_config, i + 1)

LoadZones(zs, zones_config) == LoadFrom(zs, zones_config, 1)

\* load_zones leaves by an exception
LoadRaises(zones_config) ==
    \E i \in 1 .. Len(zones_config) : LoadOneRaises(zones_config[i].data)

\* configuration entries: a zone id with the keys its dictionary holds
CfgZone(zone_id, keys, name, points, color, alert_enabled) ==
    [id |-> zone_id,
     data |-> [keys |-> keys, name |-> name, points |-> points, color |-> color,
               alert_enabled |-> alert_enabled]]

AllKeys == {"name", "points", "color", "alert_enabled"}

ZoneConfigs ==
    { <<>>,
      << CfgZone("z1", AllKeys, "Z", Sq10, Red, TRUE),
         CfgZone("z2", AllKeys, "Y", Tri20, Green, TRUE) >>,
      << CfgZone("z1", AllKeys, "Z", Seg2, Red, TRUE),
         CfgZone("z2", {"points"}, "Y", Tri10, Green, FALSE) >>,
      << CfgZone("z2", {"name", "alert_enabled"}, "Y", Sq10, Red, TRUE),
         CfgZone("z1", AllKeys, "Z", Sq10, Green, FALSE) >> }

\* a configuration whose first zone is a ring shapely refuses
ClosedConfig ==
    << CfgZone("z1", AllKeys, "Z", Closed3, Red, TRUE),
       CfgZone("z2", {"points"}, "Y", Tri10, Green, FALSE) >>

\* the configurations load_zones is called with on a live manager
LoadConfigs == ZoneConfigs \cup {ClosedConfig}

\* check_point_in_zones without the alert_enabled test
RECURSIVE CheckFromNoSkip(_, _, _)
CheckFromNoSkip(zs, point, i) ==
    IF i > Len(zs) THEN None
    ELSE IF Contains(zs[i].polygon, point) THEN zs[i].id
    ELSE CheckFromNoSkip(zs, point, i + 1)

\* check_point_in_zones: the loop over self.zones.items(), from position i
RECURSIVE CheckFrom(_, _, _)
CheckFrom(zs, point, i) ==
    IF i > Len(zs) THEN None
    ELSE IF ~zs[i].alert_enabled THEN CheckFrom(zs, point, i + 1)
    ELSE IF Contains(zs[i].polygon, point) THEN zs[i].id
    ELSE CheckFrom(zs, point, i + 1)

check_point_in_zones(zs, point) == CheckFrom(zs, point, 1)

\* the zone record add_zone stores
NewZone(zone_id, name, points, color, alert_enabled) ==
    [id |-> zone_id, name |-> name, polygon |-> Polygon(points), points |-> points,
     color |-> color, alert_enabled |-> alert_enabled]

\* add_zone's guard without the length test
AddRejectedNoLen(zs, zone_id, points) == HasZone(zs, zone_id)

AddRejected(zs, zone_id, points) == HasZone(zs, zone_id) \/ Len(points) < 3

\* update_zone with line 119 left out
SetPolygonKeep(zs, zone_id, points) == zs

\* the statements of update_zone, each a write to one field of the zone's dictionary
SetPoints(zs, zone_id, points) == [zs EXCEPT ![ZoneIndex(zs, zone_id)].points = points]
SetPolygon(zs, zone_id, points) ==
    [zs EXCEPT ![ZoneIndex(zs, zone_id)].polygon = Polygon(points)]
SetAlertEnabled(zs, zone_id, alert_enabled) ==
    [zs EXCEPT ![ZoneIndex(zs, zone_id)].alert_enabled = alert_enabled]
SetColor(zs, zone_id, color) == [zs EXCEPT ![ZoneIndex(zs, zone_id)].color = color]

\* an optional argument: [given |-> FALSE] is Python's None
NoArg == [given |-> FALSE]
Arg(v) == [given |-> TRUE, val |-> v]
OptArgs(S) == {NoArg} \cup {Arg(v) : v \in S}

\* an update that takes every list it is given
UpdatesGeometryAnyLength(points) == points.given

\* if points is not None and len(points) >= 3:
UpdatesGeometry(points) == points.given /\ Len(points.val) >= 3

\* the body of update_zone after the membership test
UpdateFields(zs, zone_id, points, alert_enabled, color) ==
    LET z1 == IF UpdatesGeometry(points)
              THEN SetPolygon(SetPoints(zs, zone_id, points.val), zone_id, points.val)
              ELSE zs
        z2 == IF alert_enabled.given THEN SetAlertEnabled(z1, zone_id, alert_enabled.val) ELSE z1
    IN IF color.given THEN SetColor(z2, zone_id, color.val) ELSE z2

NPts(points) == IF points.given THEN Len(points.val) ELSE -1

ZCall(op, zone_id, npts, ok) ==
    [op |-> op, id |-> zone_id, npts |-> npts, ok |-> ok, raised |-> FALSE,
     point |-> <<0, 0>>, ret |-> None, points |-> <<>>, alert_given |-> FALSE, old |-> <<>>,
     cfg |-> <<>>, rest |-> <<>>]

\* the record of a load_zones call, from the constructor ("init") or on a live manager
LoadCall(op, zones_config) ==
    [ZCall(op, None, -1, ~LoadRaises(zones_config)) EXCEPT
        !.raised = LoadRaises(zones_config), !.cfg = zones_config]

\* the record of a call that left by an exception
ZRaised(op, zone_id, npts) == [ZCall(op, zone_id, npts, FALSE) EXCEPT !.raised = TRUE]

\* the record of an update_zone call that returned True: with new geometry, the list
\* passed and the list the zone had before; with a list that was passed over, the
\* other arguments
UpdateCall(zs, zone_id, points, alert_enabled, color) ==
    IF UpdatesGeometry(points)
    THEN [ZCall("update", zone_id, NPts(points), TRUE) EXCEPT
             !.points = points.val, !.alert_given = alert_enabled.given,
             !.old = zs[ZoneIndex(zs, zone_id)].points]
    ELSE IF points.given
    THEN [ZCall("update", zone_id, NPts(points), TRUE) EXCEPT
             !.rest = [alert_enabled |-> alert_enabled, color |-> color]]
    ELSE ZCall("update", zone_id, NPts(points), TRUE)

\* the editing thread outside any call; inside update_zone it holds the call's arguments
\* and the table as it was when the call began
WriterIdle ==
    [pc |-> "idle", id |-> None, points |-> NoArg, alert_enabled |-> NoArg, color |-> NoArg,
     before |-> <<>>]

\* calls the editing thread makes in one run of the concurrent specification
MaxEdits == 2

\* the reading thread outside any call.  Inside a call: its dict iterator (used: the
\* size of the dict when the iterator was made, pos: entries yielded so far, dirty: keys
\* were added or removed since), zone_data (cur, or the detached dictionary val of a
\* zone removed meanwhile), what it read, and the record of the calls that overlapped it
\* (nmut: how many, allowed: what check_point_in_zones returns on the table before and
\* after each of them)
ReaderIdle ==
    [pc |-> "idle", op |-> "none", point |-> <<0, 0>>, used |-> 0, pos |-> 0,
     dirty |-> FALSE, cur |-> None, det |-> FALSE,
     val |-> NewZone(None, "", Seg2, Red, FALSE), ret |-> None, allowed |-> {}, nmut |-> 0,
     seen_pts |-> Seg2, seen_poly |-> Polygon(Seg2)]

InitZones ==
    /\ \E zcfg \in ZoneConfigs :
          /\ zones = LoadZones(<<>>, zcfg)
          /\ zlast = LoadCall("init", zcfg)
    /\ wr = WriterIdle
    /\ rd = ReaderIdle
    /\ edits = 0

\* the zone manager, in a specification that does not run it
ZonesParked ==
    /\ zones = <<>>
    /\ zlast = ZCall("init", None, -1, TRUE)
    /\ wr = WriterIdle
    /\ rd = ReaderIdle
    /\ edits = 0

load_zones ==
    \E zcfg \in LoadConfigs :
        /\ UNCHANGED <<wr, rd, edits, avars, pvars, xvars>>
        /\ zones' = LoadZones(zones, zcfg)
        /\ zlast' = LoadCall("load", zcfg)

add_zone ==
    /\ UNCHANGED <<wr, rd, edits, avars, pvars, xvars>>
    /\ \E zone_id \in ZoneIds, name \in ZoneNames, points \in ArgPointLists,
       color \in {Red}, alert_enabled \in BOOLEAN :
        IF AddRejected(zones, zone_id, points)
        THEN /\ zones' = zones
             /\ zlast' = ZCall("add", zone_id, Len(points), FALSE)
        ELSE IF PolygonRaises(points)
        THEN /\ zones' = zones
             /\ zlast' = ZRaised("add", zone_id, Len(points))
        ELSE /\ zones' = SetItem(zones, zone_id,
                                 NewZone(zone_id, name, points, color, alert_enabled))
             /\ zlast' = ZCall("add", zone_id, Len(points), TRUE)

update_zone ==
    /\ UNCHANGED <<wr, rd, edits, avars, pvars, xvars>>
    /\ \E zone_id \in ZoneIds, points \in OptArgs(ArgPointLists),
       alert_enabled \in OptArgs(BOOLEAN), color \in OptArgs({Green}) :
        IF ~HasZone(zones, zone_id)
        THEN /\ zones' = zones
             /\ zlast' = ZCall("update", zone_id, NPts(points), FALSE)
        ELSE IF UpdatesGeometry(points) /\ PolygonRaises(points.val)
        THEN /\ zones' = SetPoints(zones, zone_id, points.val)
             /\ zlast' = ZRaised("update", zone_id, NPts(points))
        ELSE /\ zones' = UpdateFields(zones, zone_id, points, alert_enabled, color)
             /\ zlast' = UpdateCall(zones, zone_id, points, alert_enabled, color)

remove_zone ==
    /\ UNCHANGED <<wr, rd, edits, avars, pvars, xvars>>
    /\ \E zone_id \in ZoneIds :
        IF ~HasZone(zones, zone_id)
        THEN /\ zones' = zones
             /\ zlast' = ZCall("remove", zone_id, -1, FALSE)
        ELSE /\ zones' = DelItem(zones, zone_id)
             /\ zlast' = ZCall("remove", zone_id, -1, TRUE)

locate ==
    \E point \in TestPoints :
        /\ UNCHANGED <<wr, rd, edits, avars, pvars, xvars>>
        /\ zones' = zones
        /\ zlast' = [ZCall("locate", None, -1, TRUE) EXCEPT
                        !.point = point, !.ret = check_point_in_zones(zones, point)]

ZoneNext == load_zones \/ add_zone \/ update_zone \/ remove_zone \/ locate


(***************************************************************************)
(* ZoneManager under concurrent use: one thread edits the table while      *)
(* another (the inference stage) runs check_point_in_zones and draw_zones. *)
(* A step is one statement; the interpreter may switch threads between any *)
(* two of them.                                                            *)
(***************************************************************************)

\* the points the reading thread asks about
ConcPoints == { <<2, 8>>, <<5, 15>> }

RdActive(r) == r.pc \notin {"idle", "returned", "raised"}
RdHolds(r) == r.pc \in {"enabled", "contains", "d_points", "d_polygon", "d_name"}

\* bookkeeping of a call that overlaps the reader's call and leaves the table as `after`
RdOnCall(r, after) ==
    IF RdActive(r)
    THEN [r EXCEPT !.nmut = Min2(@ + 1, 2),
                   !.allowed = IF r.op = "locate"
                               THEN @ \cup {check_point_in_zones(after, r.point)}
                               ELSE @]
    ELSE r
\* the dict gained or lost a key while the iterator is live
RdOnSizeChange(r) == IF RdActive(r) THEN [r EXCEPT !.dirty = TRUE] ELSE r
\* the dictionary of a removed zone lives on for the reader that holds it
RdOnRemove(r, zone_id, old) ==
    IF RdHolds(r) /\ r.cur = zone_id /\ ~r.det THEN [r EXCEPT !.det = TRUE, !.val = old] ELSE r

\* zone_data, as the reader sees it now
CurZone == IF rd.det THEN rd.val ELSE zones[ZoneIndex(zones, rd.cur)]

\* the next statement of update_zone that writes, after the one at pc
AfterGeometry(alert_enabled, color) ==
    IF alert_enabled.given THEN "u122" ELSE IF color.given THEN "u125" ELSE "ret"
FirstWrite(points, alert_enabled, color) ==
    IF UpdatesGeometry(points) THEN "u118" ELSE AfterGeometry(alert_enabled, color)
NextWrite(w) ==
    CASE w.pc = "u118" -> "u119"
      [] w.pc = "u119" -> AfterGeometry(w.alert_enabled, w.color)
      [] w.pc = "u122" -> IF w.color.given THEN "u125" ELSE "ret"
      [] OTHER -> "ret"

WAdd ==
    /\ wr.pc = "idle"
    /\ edits < MaxEdits
    /\ edits' = edits + 1
    /\ \E zone_id \in ZoneIds, name \in ZoneNames, points \in PointLists,
          color \in Colors, alert_enabled \in BOOLEAN :
        IF AddRejected(zones, zone_id, points)
        THEN UNCHANGED <<zones, rd>>
        ELSE /\ zones' = SetItem(zones, zone_id,
                                 NewZone(zone_id, name, points, color, alert_enabled))
             /\ rd' = RdOnSizeChange(RdOnCall(rd, zones'))
    /\ UNCHANGED <<wr, zlast, avars, pvars, xvars>>

WRemove ==
    /\ wr.pc = "idle"
    /\ edits < MaxEdits
    /\ edits' = edits + 1
    /\ \E zone_id \in ZoneIds :
        IF ~HasZone(zones, zone_id)
        THEN UNCHANGED <<zones, rd>>
        ELSE /\ zones' = DelItem(zones, zone_id)
             /\ rd' = RdOnRemove(RdOnSizeChange(RdOnCall(rd, zones')), zone_id,
                                 zones[ZoneIndex(zones, zone_id)])
    /\ UNCHANGED <<wr, zlast, avars, pvars, xvars>>

\* update_zone up to its first write
WUpdateCall ==
    /\ wr.pc = "idle"
    /\ edits < MaxEdits
    /\ edits' = edits + 1
    /\ \E zone_id \in ZoneIds, points \in OptArgs(PointLists),
          alert_enabled \in OptArgs(BOOLEAN), color \in OptArgs(Colors) :
        IF ~HasZone(zones, zone_id)
        THEN UNCHANGED <<wr, rd>>
        ELSE IF FirstWrite(points, alert_enabled, color) = "ret"
        THEN /\ wr' = wr
             /\ rd' = RdOnCall(rd, zones)
        ELSE /\ wr' = [pc |-> FirstWrite(points, alert_enabled, color), id |-> zone_id,
                       points |-> points, alert_enabled |-> alert_enabled,
                       color |-> color, before |-> zones]
             /\ rd' = RdOnCall(rd, UpdateFields(zones, zone_id, points, alert_enabled,
                                                color))
    /\ UNCHANGED <<zones, zlast, avars, pvars, xvars>>

\* one write of update_zone; the call returns after its last write
WUpdateStep ==
    /\ wr.pc \in {"u118", "u119", "u122", "u125"}
    /\ zones' = CASE wr.pc = "u118" -> SetPoints(zones, wr.id, wr.points.val)
                  [] wr.pc = "u119" -> SetPolygon(zones, wr.id, wr.points.val)
                  [] wr.pc = "u122" -> SetAlertEnabled(zones, wr.id, wr.alert_enabled.val)
                  [] OTHER -> SetColor(zones, wr.id, wr.color.val)
    /\ wr' = IF NextWrite(wr) = "ret" THEN WriterIdle ELSE [wr EXCEPT !.pc = NextWrite(wr)]
    /\ rd' = rd
    /\ UNCHANGED <<zlast, edits, avars, pvars, xvars>>

\* the table now, or before and after the update_zone call in progress
TablesNow ==
    IF wr.pc = "idle" THEN {zones}
    ELSE {wr.before, UpdateFields(wr.before, wr.id, wr.points, wr.alert_enabled, wr.color)}

\* the reader calls check_point_in_zones(point) or draw_zones(frame): iter(self.zones.items())
RStart ==
    /\ rd.pc \in {"idle", "returned"}
    /\ \E op \in {"locate", "draw"}, point \in ConcPoints :
        /\ op = "draw" => point = <<2, 8>>
        /\ rd' = [ReaderIdle EXCEPT
                    !.pc = "next", !.op = op, !.point = point, !.used = Len(zones),
                    !.nmut = IF wr.pc = "idle" THEN 0 ELSE 1,
                    !.allowed = IF op = "locate"
                                THEN {check_point_in_zones(zs, point) : zs \in TablesNow}
                                ELSE {}]
    /\ UNCHANGED <<zones, zlast, wr, edits, avars, pvars, xvars>>

Yield(j) ==
    rd' = [rd EXCEPT !.cur = zones[j].id, !.det = FALSE, !.pos = @ + 1,
                     !.pc = IF rd.op = "locate" THEN "enabled" ELSE "d_points"]

\* next() of the dict iterator: RuntimeError when the dict changed size; after keys were
\* added and removed with the size restored, the order of iteration is not defined
RNext ==
    /\ rd.pc = "next"
    /\ IF Len(zones) # rd.used
       THEN rd' = [rd EXCEPT !.pc = "raised"]
       ELSE IF rd.pos >= Len(zones)
       THEN rd' = [rd EXCEPT !.pc = "returned", !.ret = None]
       ELSE IF rd.dirty
       THEN \/ \E j \in 1 .. Len(zones) : Yield(j)
            \/ rd' = [rd EXCEPT !.pc = "returned", !.ret = None]
            \/ rd' = [rd EXCEPT !.pc = "raised"]
       ELSE Yield(rd.pos + 1)
    /\ UNCHANGED <<zones, zlast, wr, edits, avars, pvars, xvars>>

\* check_point_in_zones: if not zone_data.get('alert_enabled', True): continue
REnabled ==
    /\ rd.pc = "enabled"
    /\ rd' = [rd EXCEPT !.pc = IF CurZone.alert_enabled THEN "contains" ELSE "next"]
    /\ UNCHANGED <<zones, zlast, wr, edits, avars, pvars, xvars>>

\* check_point_in_zones: if zone_data['polygon'].contains(point): return zone_id
RContains ==
    /\ rd.pc = "contains"
    /\ rd' = IF Contains(CurZone.polygon, rd.point)
             THEN [rd EXCEPT !.pc = "returned", !.ret = rd.cur]
             ELSE [rd EXCEPT !.pc = "next"]
    /\ UNCHANGED <<zones, zlast, wr, edits, avars, pvars, xvars>>

\* draw_zones: points = np.array(zone_data['points'], np.int32)
RDrawPoints ==
    /\ rd.pc = "d_points"
    /\ rd' = [rd EXCEPT !.pc = "d_polygon", !.seen_pts = CurZone.points]
    /\ UNCHANGED <<zones, zlast, wr, edits, avars, pvars, xvars>>

\* draw_zones: centroid = zone_data['polygon'].centroid
RDrawPolygon ==
    /\ rd.pc = "d_polygon"
    /\ rd' = [rd EXCEPT !.pc = "d_name", !.seen_poly = CurZone.polygon]
    /\ UNCHANGED <<zones, zlast, wr, edits, avars, pvars, xvars>>

\* draw_zones: cv2.putText(frame, zone_data['name'], ...), then the next zone
RDrawName ==
    /\ rd.pc = "d_name"
    /\ rd' = [rd EXCEPT !.pc = "next"]
    /\ UNCHANGED <<zones, zlast, wr, edits, avars, pvars, xvars>>

ZoneConcNext ==
    \/ WAdd \/ WRemove \/ WUpdateCall \/ WUpdateStep
    \/ RStart \/ RNext \/ REnabled \/ RContains
    \/ RDrawPoints \/ RDrawPolygon \/ RDrawName


(***************************************************************************)
(* AlertManager                                                            *)
(***************************************************************************)

\* alerts_config.get('cooldown_seconds', 60)
DefaultCooldown == 60

\* time.time() when the program starts, seconds since the epoch
StartClock == 1700000000
\* seconds of a run that are modelled, and the steps in which the clock advances
MaxElapsed == 61
TickSteps == {30, 31}
\* send_alert calls in one run
MaxAttempts == 3

Callers == {"output", "other"}
\* the (frame, detections) arguments of send_alert
Payloads ==
    { [frame |-> "frame1", dets |-> <<"person@z1">>],
      [frame |-> "frame2", dets |-> <<"person@z1", "person@z2">>] }

\* alerts_dir / f"alert_{timestamp}.{ext}", timestamp = strftime("%Y%m%d_%H%M%S")
AlertPath(t, ext) == [dir |-> "alerts", stamp |-> t, ext |-> ext]

\* the bytes cv2.imwrite stores for a frame
Jpeg(frame) == <<"jpeg", frame>>

\* writing a file replaces what the path held
WriteFile(fs, path, data) ==
    {f \in fs : f.path # path} \cup {[path |-> path, data |-> data]}
HasFile(fs, path) == \E f \in fs : f.path = path
ReadFile(fs, path) == (CHOOSE f \in fs : f.path = path).data

\* a thread outside send_alert; exc: its last call left by an exception
CallerIdle == [pc |-> "idle", frame |-> "frame1", dets |-> <<>>, k |-> 0, ts |-> 0,
               exc |-> FALSE]

\* a decided call: the clock and last_alert_time read for the decision, the result
\* ("pending" until the call ends), the timestamp its files are named by and whether
\* cv2.imwrite stored the image
Decided(ret) ==
    [at |-> clock, last |-> am.last_alert_time, ret |-> ret, stamp |-> 0, img |-> FALSE]

\* no test_alerts call so far
NoTest ==
    [calls |-> 0, hist_len |-> 0, sent |-> <<>>,
     results |-> [email |-> FALSE, telegram |-> FALSE]]

Started == Len(hist) + Cardinality({t \in Callers : callers[t].pc = "acquire"})

InitAlert ==
    /\ clock = StartClock
    /\ \E en \in BOOLEAN, em \in BOOLEAN, tg \in BOOLEAN :
          cfg = [enabled |-> en, cooldown_seconds |-> DefaultCooldown,
                 email_enabled |-> em, telegram_enabled |-> tg]
    /\ am = [last_alert_time |-> 0, alert_lock |-> "free"]
    /\ files = {}
    /\ callers = [t \in Callers |-> CallerIdle]
    /\ sends = <<>>
    /\ hist = <<>>
    /\ ta = NoTest

\* the alert manager, in a specification that does not run it
AlertParked ==
    /\ clock = StartClock
    /\ cfg = [enabled |-> TRUE, cooldown_seconds |-> DefaultCooldown,
              email_enabled |-> FALSE, telegram_enabled |-> FALSE]
    /\ am = [last_alert_time |-> 0, alert_lock |-> "free"]
    /\ files = {}
    /\ callers = [t \in Callers |-> CallerIdle]
    /\ sends = <<>>
    /\ hist = <<>>
    /\ ta = NoTest

Tick ==
    /\ \E d \in TickSteps :
          /\ clock + d <= StartClock + MaxElapsed
          /\ clock' = clock + d
    /\ UNCHANGED <<cfg, am, files, callers, sends, hist, zvars, pvars, xvars>>

\* the cooldown test: if current_time - self.last_alert_time < self.cooldown_seconds
CooldownActiveStrict(current_time) ==
    current_time - am.last_alert_time <= cfg.cooldown_seconds

CooldownActive(current_time) ==
    current_time - am.last_alert_time < cfg.cooldown_seconds

\* a gate kept per zone: an attempt is only suppressed by an admitted dispatch that
\* had the same detections
SuppressedPerZone(t, current_time) ==
    /\ CooldownActive(current_time)
    /\ \E k \in 1 .. Len(hist) :
          /\ hist[k].ret # "false" /\ hist[k].at = am.last_alert_time
          /\ k <= Len(offered) /\ offered[k] = callers[t].dets

\* the test of send_alert reads the clock and self.last_alert_time, and nothing of
\* the frame or the detections of the call
Suppressed(t, current_time) == CooldownActive(current_time)

\* the value send_alert returns for the dispatch k when any of its sends has failed
SuccessIfAllSent(k) ==
    ~\E i \in 1 .. Len(sends) : sends[i].k = k /\ sends[i].state = "failed"

\* success = True
Success(k) == TRUE

\* send_alert(frame, detections) is entered: if not self.enabled: return False
SendAlertCall(t, frame, dets) ==
    IF ~cfg.enabled
    THEN /\ hist' = Append(hist, Decided("false"))
         /\ callers' = [callers EXCEPT ![t] = CallerIdle]
    ELSE /\ callers' = [callers EXCEPT ![t] =
                          [CallerIdle EXCEPT !.pc = "acquire", !.frame = frame,
                                             !.dets = dets]]
         /\ hist' = hist

\* a thread calls send_alert(frame, detections)
ACall(t) ==
    /\ callers[t].pc = "idle"
    /\ Started < MaxAttempts
    /\ \E arg \in Payloads : SendAlertCall(t, arg.frame, arg.dets)
    /\ UNCHANGED <<clock, cfg, am, files, sends, zvars, pvars, xvars>>

\* with self.alert_lock: the lock is taken and the cooldown decided
ACheck(t) ==
    /\ callers[t].pc = "acquire"
    /\ am.alert_lock = "free"
    /\ LET current_time == clock
       IN IF Suppressed(t, current_time)
          THEN /\ hist' = Append(hist, Decided("false"))
               /\ callers' = [callers EXCEPT ![t] = CallerIdle]
               /\ am' = am
          ELSE /\ hist' = Append(hist, Decided("pending"))
               /\ callers' = [callers EXCEPT ![t].pc = "img", ![t].k = Len(hist) + 1]
               /\ am' = [last_alert_time |-> current_time, alert_lock |-> t]
    /\ UNCHANGED <<clock, cfg, files, sends, zvars, pvars, xvars>>

\* an exception that takes the committed time back on its way out
RaiseRollsBack(t) ==
    /\ callers' = [callers EXCEPT ![t] = [CallerIdle EXCEPT !.exc = TRUE]]
    /\ am' = [last_alert_time |-> hist[callers[t].k].last, alert_lock |-> "free"]

\* an exception leaves send_alert: the with block releases the lock on the way out
Raise(t) ==
    /\ callers' = [callers EXCEPT ![t] = [CallerIdle EXCEPT !.exc = TRUE]]
    /\ am' = [am EXCEPT !.alert_lock = "free"]

\* timestamp = datetime.now().strftime(...); cv2.imwrite(str(alert_img_path), frame):
\* the image is stored, or imwrite returns False and nothing is stored (the result is
\* not looked at), or imwrite raises
AImage(t) ==
    /\ callers[t].pc = "img"
    /\ \/ /\ callers' = [callers EXCEPT ![t].pc = "meta", ![t].ts = clock]
          /\ files' = WriteFile(files, AlertPath(clock, "jpg"), Jpeg(callers[t].frame))
          /\ hist' = [hist EXCEPT ![callers[t].k].stamp = clock,
                                  ![callers[t].k].img = TRUE]
          /\ am' = am
       \/ /\ callers' = [callers EXCEPT ![t].pc = "meta", ![t].ts = clock]
          /\ files' = files
          /\ hist' = [hist EXCEPT ![callers[t].k].stamp = clock]
          /\ am' = am
       \/ /\ Raise(t)
          /\ files' = files
          /\ hist' = [hist EXCEPT ![callers[t].k].ret = "raised"]
    /\ UNCHANGED <<clock, cfg, sends, zvars, pvars, xvars>>

\* with open(alert_meta_path, 'w') as f: json.dump(detections, f, indent=2):
\* the metadata is stored, or open raises
AMeta(t) ==
    /\ callers[t].pc = "meta"
    /\ \/ /\ callers' = [callers EXCEPT ![t].pc = "email"]
          /\ files' = WriteFile(files, AlertPath(callers[t].ts, "json"), callers[t].dets)
          /\ UNCHANGED <<am, hist>>
       \/ /\ Raise(t)
          /\ files' = files
          /\ hist' = [hist EXCEPT ![callers[t].k].ret = "raised"]
    /\ UNCHANGED <<clock, cfg, sends, zvars, pvars, xvars>>

\* the thread started for one channel: its arguments and how far it is
SendThread(t, chan) ==
    [k |-> callers[t].k, chan |-> chan, frame |-> callers[t].frame,
     path |-> AlertPath(callers[t].ts, "jpg"), dets |-> callers[t].dets,
     state |-> "started", image |-> <<>>]

\* two threads started for the channel
StartSendTwice(t, chan) == Append(Append(sends, SendThread(t, chan)), SendThread(t, chan))

\* Thread(target=..., args=(str(alert_img_path), detections)).start()
StartSend(t, chan) == Append(sends, SendThread(t, chan))

\* if self.email_enabled: Thread(target=self._send_email_alert, ...).start()
AEmail(t) ==
    /\ callers[t].pc = "email"
    /\ callers' = [callers EXCEPT ![t].pc = "telegram"]
    /\ sends' = IF cfg.email_enabled THEN StartSend(t, "email") ELSE sends
    /\ UNCHANGED <<clock, cfg, am, files, hist, zvars, pvars, xvars>>

\* if self.telegram_enabled: Thread(target=self._send_telegram_alert, ...).start()
ATelegram(t) ==
    /\ callers[t].pc = "telegram"
    /\ callers' = [callers EXCEPT ![t].pc = "ret"]
    /\ sends' = IF cfg.telegram_enabled THEN StartSend(t, "telegram") ELSE sends
    /\ UNCHANGED <<clock, cfg, am, files, hist, zvars, pvars, xvars>>

\* send_alert joining the threads it started before it returns
SendsJoinedWhenDone(k) ==
    \A i \in 1 .. Len(sends) : sends[i].k = k => sends[i].state # "started"

\* the threads are started and never joined: return success waits for nothing
SendsJoined(k) == TRUE

\* return success, leaving the with block: the lock is released
AReturn(t) ==
    /\ callers[t].pc = "ret"
    /\ SendsJoined(callers[t].k)
    /\ callers' = [callers EXCEPT ![t] = CallerIdle]
    /\ am' = [am EXCEPT !.alert_lock = "free"]
    /\ hist' = [hist EXCEPT ![callers[t].k].ret =
                   IF Success(callers[t].k) THEN "true" ELSE "false"]
    /\ UNCHANGED <<clock, cfg, files, sends, zvars, pvars, xvars>>

\* _send_email_alert / _send_telegram_alert: the image is read and sent; any exception
\* is caught and logged, and the thread returns False
ChannelSend(i) ==
    /\ sends[i].state = "started"
    /\ \/ /\ HasFile(files, sends[i].path)
          /\ sends' = [sends EXCEPT ![i].state = "ok",
                                    ![i].image = ReadFile(files, sends[i].path)]
       \/ sends' = [sends EXCEPT ![i].state = "failed"]
    /\ UNCHANGED <<clock, cfg, am, files, callers, hist, zvars, pvars, xvars>>

\* test_alerts calls in one run
MaxTests == 1

\* self.alerts_dir / "test_alert.jpg": the one alert file without a timestamp
TestImagePath == [dir |-> "alerts", stamp |-> 0, ext |-> "jpg"]

\* [{'class_name': 'person', 'zone_id': 'test_zone', 'confidence': 0.95}]
TestDetections == << "person@test_zone" >>

\* test_alerts calling the send of every channel
TestInvokesAlways(enabled) == TRUE

\* if self.email_enabled: / if self.telegram_enabled:
TestInvokes(enabled) == enabled

\* one call of _send_email_alert / _send_telegram_alert made by test_alerts and the
\* value it returned
TestSend(chan, ok) ==
    [chan |-> chan, path |-> TestImagePath, dets |-> TestDetections, ok |-> ok]

\* test_alerts: the test image is written (or cv2.imwrite returns False and it is
\* not), then the send of each enabled channel is called in this thread and its
\* result stored in results; a send can return True only if it could read the image
TestAlerts ==
    /\ ta.calls < MaxTests
    /\ \E stored \in BOOLEAN, email_ok \in BOOLEAN, telegram_ok \in BOOLEAN :
          LET fs == IF stored THEN WriteFile(files, TestImagePath, Jpeg("test_image"))
                    ELSE files
              email == TestInvokes(cfg.email_enabled)
              telegram == TestInvokes(cfg.telegram_enabled)
          IN /\ email_ok => email /\ HasFile(fs, TestImagePath)
             /\ telegram_ok => telegram /\ HasFile(fs, TestImagePath)
             /\ files' = fs
             /\ ta' = [calls |-> ta.calls + 1, hist_len |-> Len(hist),
                       sent |-> (IF email THEN << TestSend("email", email_ok) >> ELSE <<>>)
                                \o (IF telegram THEN << TestSend("telegram", telegram_ok) >>
                                    ELSE <<>>),
                       results |-> [email |-> email_ok, telegram |-> telegram_ok]]
    /\ UNCHANGED <<clock, cfg, am, callers, sends, hist, zvars, pvars, det, pm, cl, offered, bm>>

\* send_alert calls in a run that also calls test_alerts
MaxTestAttempts == 2

\* one thread calling send_alert, and test_alerts called at any moment
AlertTestNext ==
    \/ Tick
    \/ Len(hist) < MaxTestAttempts /\ ACall("output")
    \/ ACheck("output") \/ AImage("output") \/ AMeta("output")
    \/ AEmail("output") \/ ATelegram("output") \/ AReturn("output")
    \/ \E i \in 1 .. Len(sends) : ChannelSend(i)
    \/ TestAlerts

\* the detections the output thread calls send_alert with: a person in zone A, a
\* person in zone B
ZonePayloads ==
    { [frame |-> "frame1", dets |-> <<"person@zoneA">>],
      [frame |-> "frame2", dets |-> <<"person@zoneB">>] }

\* no send_alert call by the output thread is recorded
GateParked == offered = <<>>

\* the output thread calls send_alert(frame, detections)
GateCall ==
    /\ callers["output"].pc = "idle"
    /\ Len(offered) < MaxAttempts
    /\ \E arg \in ZonePayloads :
          /\ SendAlertCall("output", arg.frame, arg.dets)
          /\ offered' = Append(offered, arg.dets)
    /\ UNCHANGED <<clock, cfg, am, files, sends, zvars, pvars, det, ta, pm, cl, bm>>

\* the output thread alone calling send_alert, for detections in different zones
GateNext ==
    \/ Tick
    \/ GateCall
    \/ ACheck("output") \/ AImage("output") \/ AMeta("output")
    \/ AEmail("output") \/ ATelegram("output") \/ AReturn("output")
    \/ \E i \in 1 .. Len(sends) : ChannelSend(i)

AlertNext ==
    \/ Tick
    \/ \E t \in Callers :
          ACall(t) \/ ACheck(t) \/ AImage(t) \/ AMeta(t) \/ AEmail(t) \/ ATelegram(t)
          \/ AReturn(t)
    \/ \E i \in 1 .. Len(sends) : ChannelSend(i)


(***************************************************************************)
(* IntruderDetectionSystem: the capture, inference and output threads      *)
(***************************************************************************)

\* frames the camera delivers in one run
MaxFrames == 3
\* config['output']['frame_save_interval']
FrameSaveInterval == 2
\* dequeue timeouts counted for a consumer after the pipeline stopped
MaxLate == 2

Stages == {"capture", "process", "output"}
Consumers == {"process", "output"}

\* a person box (x1, y1, x2, y2) whose bottom centre is inside Sq10, and one whose
\* bottom centre is outside while its centre is inside
BoxIn == <<2, 2, 8, 5>>
BoxOut == <<2, 2, 8, 15>>
\* the scene in front of the camera: the box found in the n-th frame it delivers
SceneBox(n) == IF n % 2 = 1 THEN BoxIn ELSE BoxOut

NoItem == [id |-> 0, box |-> <<>>]
FrameNames == <<"frame1", "frame2", "frame3", "frame4">>

\* config['zones'] of the running system
PipeZones == << CfgZone("z1", AllKeys, "Z", Sq10, Red, TRUE) >>

\* queue.Queue.full(): 0 < maxsize <= qsize(), with one item too many admitted
QueueFullOffByOne(q, maxsize) == maxsize > 0 /\ Len(q) > maxsize

\* queue.Queue.full(): 0 < maxsize <= qsize()
QueueFull(q, maxsize) == maxsize > 0 /\ Len(q) >= maxsize

\* a queue that hands out the newest item first
QueuePutFront(q, item, maxsize) == IF QueueFull(q, maxsize) THEN q ELSE <<item>> \o q

\* queue.put(item, block=False) inside try / except queue.Full: pass
QueuePut(q, item, maxsize) == IF QueueFull(q, maxsize) THEN q ELSE Append(q, item)

\* the consumer retries the dequeue without looking at the flag
AfterEmptyRetry == "get"

\* except queue.Empty: continue
AfterEmpty == "loop"

\* the centre of the box instead of its bottom centre
Centroid(box) == <<(box[1] + box[3]) \div 2, (box[2] + box[4]) \div 2>>

\* feet_x, feet_y = (x1 + x2) // 2, y2
Feet(box) == <<(box[1] + box[3]) \div 2, box[4]>>

\* if zone_id: the truth value of the value check_point_in_zones returned
Truthy(zone_id) == zone_id # None /\ zone_id # ""

\* config['model']['target_classes'], by default the person class, and another class
PersonClass == 0
OtherClass == PersonClass + 1
target_classes == {PersonClass}

\* one box of results.boxes: box.xyxy[0] as integers and box.cls[0]
Box(xyxy, cls) == [xyxy |-> xyxy, cls |-> cls]

\* the dictionary appended to detections
Detection(box, zone_id) == [bbox |-> box.xyxy, class_id |-> box.cls, zone_id |-> zone_id]

\* the loop of process_results from box i on: the detections appended
RECURSIVE ProcessFrom(_, _, _)
ProcessFrom(zs, boxes, i) ==
    IF i > Len(boxes) THEN <<>>
    ELSE LET box == boxes[i]
             zone_id == check_point_in_zones(zs, Feet(box.xyxy))
         IN (IF box.cls \in target_classes /\ Truthy(zone_id)
             THEN << Detection(box, zone_id) >>
             ELSE <<>>) \o ProcessFrom(zs, boxes, i + 1)

process_results(zs, boxes) == ProcessFrom(zs, boxes, 1)

\* the detection_point of each box, <<>> for a box that is not of a target class
TestedPoints(boxes) ==
    [i \in 1 .. Len(boxes) |->
        IF boxes[i].cls \in target_classes THEN Feet(boxes[i].xyxy) ELSE <<>>]

\* process_results for the one box of a frame: the detections list
Detections(frame) ==
    LET ds == process_results(zones, << Box(frame.box, PersonClass) >>)
    IN [k \in 1 .. Len(ds) |-> "person@" \o ds[k].zone_id]

\* a test of the output stage that opens after half the cooldown
ShouldSendAlertEarly == clock - last_alert_time > cfg.cooldown_seconds \div 2

\* _should_send_alert: time.time() - self.last_alert_time > cooldown
ShouldSendAlert == clock - last_alert_time > cfg.cooldown_seconds

\* detection_frames_dir / f"intrusion_{timestamp}.{ext}"
DetectionPath(t, ext) == [dir |-> "detections", stamp |-> t, ext |-> ext]

StartPc == [capture |-> "start_capture", process |-> "start_process",
            output |-> "start_output"]
AfterStart == [capture |-> "start_process", process |-> "start_output",
               output |-> "join_capture"]
JoinPc == [capture |-> "join_capture", process |-> "join_process",
           output |-> "join_output"]
AfterJoin == [capture |-> "join_process", process |-> "join_output",
              output |-> "cleanup"]

Terminated(s) == pc[s] \in {"done", "dead"}

PipeConfig(n, rc, dv) ==
    [queue_size |-> n, reconnect_on_failure |-> rc, display_video |-> dv,
     save_detection_frames |-> TRUE, frame_save_interval |-> FrameSaveInterval]

\* config['output']['frame_save_interval'] one shorter: at FrameSaveInterval = 2
\* every frame with detections is to be saved
ShortInterval == FrameSaveInterval - 1
WithInterval(c, n) == [c EXCEPT !.frame_save_interval = n]

\* the configurations the pipeline is run with: config['system'], config['output']
\* and config['alerts']['enabled']
PipeRuns ==
    { [pcfg |-> PipeConfig(1, FALSE, TRUE), alerts |-> TRUE],
      [pcfg |-> PipeConfig(2, TRUE, TRUE), alerts |-> TRUE],
      [pcfg |-> WithInterval(PipeConfig(1, TRUE, FALSE), ShortInterval), alerts |-> FALSE],
      [pcfg |-> PipeConfig(2, FALSE, FALSE), alerts |-> TRUE] }

InitPipe(c) ==
    /\ running = FALSE
    /\ cap = "open"
    /\ frame_queue = <<>>
    /\ result_queue = <<>>
    /\ frame_count = 0
    /\ last_alert_time = 0
    /\ last_saved_frame = 0
    /\ pcfg = c
    /\ pc = [main |-> "init", capture |-> "idle", process |-> "idle", output |-> "idle"]
    /\ local = [capture |-> NoItem, process |-> NoItem, output |-> NoItem]
    /\ obs = [fetched |-> 0, dropped |-> {}, rdropped |-> {}, dequeued |-> <<>>,
              consumed |-> <<>>, late |-> [process |-> 0, output |-> 0], failed |-> 0,
              saves |-> <<>>]

\* the pipeline, in a specification that does not run it
PipeParked == InitPipe(PipeConfig(1, TRUE, TRUE))

\* the zone manager and the alert manager the system constructs
InitPipeZones ==
    /\ zones = LoadZones(<<>>, PipeZones)
    /\ zlast = ZCall("init", None, -1, TRUE)
    /\ wr = WriterIdle
    /\ rd = ReaderIdle
    /\ edits = 0

InitPipeAlert(en) ==
    /\ clock = StartClock
    /\ cfg = [enabled |-> en, cooldown_seconds |-> DefaultCooldown,
              email_enabled |-> TRUE, telegram_enabled |-> FALSE]
    /\ am = [last_alert_time |-> 0, alert_lock |-> "free"]
    /\ files = {}
    /\ callers = [t \in Callers |-> CallerIdle]
    /\ sends = <<>>
    /\ hist = <<>>
    /\ ta = NoTest

\* run(): self.running = True
MRun ==
    /\ pc["main"] = "init"
    /\ running' = TRUE
    /\ pc' = [pc EXCEPT !["main"] = "start_capture"]
    /\ UNCHANGED <<cap, frame_queue, result_queue, frame_count, last_alert_time,
                   last_saved_frame, pcfg, local, obs, avars, zvars, xvars>>

\* run(): capture_thread.start() / process_thread.start() / output_thread.start()
MStart(s) ==
    /\ pc["main"] = StartPc[s]
    /\ pc' = [pc EXCEPT !["main"] = AfterStart[s], ![s] = "loop"]
    /\ UNCHANGED <<running, cap, frame_queue, result_queue, frame_count, last_alert_time,
                   last_saved_frame, pcfg, local, obs, avars, zvars, xvars>>

\* run(): capture_thread.join() / process_thread.join() / output_thread.join()
MJoin(s) ==
    /\ pc["main"] = JoinPc[s]
    /\ Terminated(s)
    /\ pc' = [pc EXCEPT !["main"] = AfterJoin[s]]
    /\ UNCHANGED <<running, cap, frame_queue, result_queue, frame_count, last_alert_time,
                   last_saved_frame, pcfg, local, obs, avars, zvars, xvars>>

\* KeyboardInterrupt while the main thread waits in a join, inside the try block:
\* except KeyboardInterrupt: self.running = False, then finally: self.cleanup()
MInterrupt ==
    /\ pc["main"] \in {JoinPc[s] : s \in Stages}
    /\ running' = FALSE
    /\ pc' = [pc EXCEPT !["main"] = "cleanup"]
    /\ UNCHANGED <<cap, frame_queue, result_queue, frame_count, last_alert_time,
                   last_saved_frame, pcfg, local, obs, avars, zvars, xvars>>

\* cleanup(): self.cap.release()
MCleanup ==
    /\ pc["main"] = "cleanup"
    /\ cap' = "released"
    /\ pc' = [pc EXCEPT !["main"] = "exit"]
    /\ UNCHANGED <<running, frame_queue, result_queue, frame_count, last_alert_time,
                   last_saved_frame, pcfg, local, obs, avars, zvars, xvars>>

\* while self.running: of a worker
Loop(s, body) ==
    /\ pc[s] = "loop"
    /\ pc' = [pc EXCEPT ![s] = IF running THEN body ELSE "done"]
    /\ UNCHANGED <<running, cap, frame_queue, result_queue, frame_count, last_alert_time,
                   last_saved_frame, pcfg, local, obs, avars, zvars, xvars>>

CLoop == Loop("capture", "read")
PLoop == Loop("process", "get")
OLoop == Loop("output", "get")

\* capture_frames: ret, frame = self.cap.read() and the handling of a failed read;
\* a released camera delivers no frame; setup_camera() reopens the camera or raises
CRead ==
    /\ pc["capture"] = "read"
    /\ \/ /\ cap = "open"
          /\ obs.fetched < MaxFrames
          /\ local' = [local EXCEPT !["capture"] =
                          [id |-> obs.fetched + 1, box |-> SceneBox(obs.fetched + 1)]]
          /\ obs' = [obs EXCEPT !.fetched = @ + 1]
          /\ pc' = [pc EXCEPT !["capture"] = "put"]
          /\ UNCHANGED <<running, cap>>
       \/ /\ pcfg.reconnect_on_failure
          /\ \/ cap' = "open" /\ pc' = [pc EXCEPT !["capture"] = "loop"]
             \/ cap' = cap /\ pc' = [pc EXCEPT !["capture"] = "dead"]
          /\ UNCHANGED <<running, local, obs>>
       \/ /\ ~pcfg.reconnect_on_failure
          /\ running' = FALSE
          /\ pc' = [pc EXCEPT !["capture"] = "done"]
          /\ UNCHANGED <<cap, local, obs>>
    /\ UNCHANGED <<frame_queue, result_queue, frame_count, last_alert_time,
                   last_saved_frame, pcfg, avars, zvars, xvars>>

\* capture_frames: self.frame_queue.put(frame, block=False), except queue.Full: pass
CPut ==
    /\ pc["capture"] = "put"
    /\ frame_queue' = QueuePut(frame_queue, local["capture"], pcfg.queue_size)
    /\ obs' = IF QueueFull(frame_queue, pcfg.queue_size)
              THEN [obs EXCEPT !.dropped = @ \cup {local["capture"].id}]
              ELSE obs
    /\ pc' = [pc EXCEPT !["capture"] = "count"]
    /\ UNCHANGED <<running, cap, result_queue, frame_count, last_alert_time,
                   last_saved_frame, pcfg, local, avars, zvars, xvars>>

\* a counter that counts a fetched frame only when the queue took it
FrameCountedIfQueued(id) == IF id \in obs.dropped THEN 0 ELSE 1

\* capture_frames: self.frame_count += 1 after the try block of the put, reached
\* whether the put succeeded or queue.Full was passed over
FrameCounted(id) == 1

\* capture_frames: self.frame_count += 1 (and the sleep that throttles the loop)
CCount ==
    /\ pc["capture"] = "count"
    /\ frame_count' = frame_count + FrameCounted(local["capture"].id)
    /\ pc' = [pc EXCEPT !["capture"] = "loop"]
    /\ UNCHANGED <<running, cap, frame_queue, result_queue, last_alert_time,
                   last_saved_frame, pcfg, local, obs, avars, zvars, xvars>>

\* a dequeue that times out on an empty queue after the flag went false
Late(s) ==
    IF ~running /\ obs.late[s] < MaxLate
    THEN [obs EXCEPT !.late[s] = @ + 1]
    ELSE obs

\* process_frames: frame = self.frame_queue.get(timeout=1.0), except queue.Empty: continue
PGet ==
    /\ pc["process"] = "get"
    /\ IF frame_queue # <<>>
       THEN /\ local' = [local EXCEPT !["process"] = Head(frame_queue)]
            /\ frame_queue' = Tail(frame_queue)
            /\ obs' = [obs EXCEPT !.dequeued = Append(@, Head(frame_queue).id)]
            /\ pc' = [pc EXCEPT !["process"] = "infer"]
       ELSE /\ pc' = [pc EXCEPT !["process"] = AfterEmpty]
            /\ obs' = Late("process")
            /\ UNCHANGED <<local, frame_queue>>
    /\ UNCHANGED <<running, cap, result_queue, frame_count, last_alert_time,
                   last_saved_frame, pcfg, avars, zvars, xvars>>

\* process_frames with the model call in a try block that skips the frame
SkipFrame == "loop"

\* process_frames: nothing catches an exception of self.model(...), the thread ends
AfterModelError == "dead"

\* process_frames: results = self.model(frame, ...) and process_results(frame, results[0]);
\* the model call returns or raises
PInfer ==
    /\ pc["process"] = "infer"
    /\ \/ /\ local' = [local EXCEPT !["process"] =
                          [frame |-> local["process"],
                           detections |-> Detections(local["process"])]]
          /\ pc' = [pc EXCEPT !["process"] = "put"]
          /\ obs' = obs
       \/ /\ local' = local
          /\ pc' = [pc EXCEPT !["process"] = AfterModelError]
          /\ obs' = [obs EXCEPT !.failed = local["process"].id]
    /\ UNCHANGED <<running, cap, frame_queue, result_queue, frame_count, last_alert_time,
                   last_saved_frame, pcfg, avars, zvars, xvars>>

\* process_frames: self.result_queue.put((processed_frame, detections), block=False)
PPut ==
    /\ pc["process"] = "put"
    /\ result_queue' = QueuePut(result_queue, local["process"], pcfg.queue_size)
    /\ obs' = IF QueueFull(result_queue, pcfg.queue_size)
              THEN [obs EXCEPT !.rdropped = @ \cup {local["process"].frame.id}]
              ELSE obs
    /\ pc' = [pc EXCEPT !["process"] = "loop"]
    /\ UNCHANGED <<running, cap, frame_queue, frame_count, last_alert_time,
                   last_saved_frame, pcfg, local, avars, zvars, xvars>>

\* handle_output: frame, detections = self.result_queue.get(timeout=1.0)
OGet ==
    /\ pc["output"] = "get"
    /\ IF result_queue # <<>>
       THEN /\ local' = [local EXCEPT !["output"] = Head(result_queue)]
            /\ result_queue' = Tail(result_queue)
            /\ obs' = [obs EXCEPT !.consumed = Append(@, Head(result_queue).frame.id)]
            /\ pc' = [pc EXCEPT !["output"] = "alert"]
       ELSE /\ pc' = [pc EXCEPT !["output"] = AfterEmpty]
            /\ obs' = Late("output")
            /\ UNCHANGED <<local, result_queue>>
    /\ UNCHANGED <<running, cap, frame_queue, frame_count, last_alert_time,
                   last_saved_frame, pcfg, avars, zvars, xvars>>

\* an output stage that alerts on every result
AnyResult(detections) == TRUE

\* if detections and ...: the truth value of the detections list
HasDetections(detections) == detections # <<>>

\* handle_output: if detections and self._should_send_alert():
\*                    self.alert_manager.send_alert(frame, detections)
OAlert ==
    /\ pc["output"] = "alert"
    /\ IF HasDetections(local["output"].detections) /\ ShouldSendAlert
       THEN /\ SendAlertCall("output", FrameNames[local["output"].frame.id],
                             local["output"].detections)
            /\ pc' = [pc EXCEPT !["output"] = "send_alert"]
       ELSE /\ pc' = [pc EXCEPT !["output"] = "display"]
            /\ UNCHANGED <<callers, hist>>
    /\ UNCHANGED <<clock, cfg, am, files, sends,
                   running, cap, frame_queue, result_queue, frame_count, last_alert_time,
                   last_saved_frame, pcfg, local, obs, zvars, xvars>>

\* handle_output: send_alert has returned: self.last_alert_time = time.time();
\* an exception that left send_alert ends the thread
OAlertDone ==
    /\ pc["output"] = "send_alert"
    /\ callers["output"].pc = "idle"
    /\ IF callers["output"].exc
       THEN /\ pc' = [pc EXCEPT !["output"] = "dead"]
            /\ last_alert_time' = last_alert_time
       ELSE /\ pc' = [pc EXCEPT !["output"] = "display"]
            /\ last_alert_time' = clock
    /\ UNCHANGED <<running, cap, frame_queue, result_queue, frame_count,
                   last_saved_frame, pcfg, local, obs, avars, zvars, xvars>>

\* handle_output: cv2.imshow and the 'q' key: self.running = False; break
ODisplay ==
    /\ pc["output"] = "display"
    /\ \/ /\ pcfg.display_video
          /\ running' = FALSE
          /\ pc' = [pc EXCEPT !["output"] = "done"]
       \/ /\ running' = running
          /\ pc' = [pc EXCEPT !["output"] = "save"]
    /\ UNCHANGED <<cap, frame_queue, result_queue, frame_count, last_alert_time,
                   last_saved_frame, pcfg, local, obs, avars, zvars, xvars>>

\* handle_output: the detection frame saved at the configured interval
\* (_save_detection_frame) and self.last_saved_frame = self.frame_count
OSave ==
    /\ pc["output"] = "save"
    /\ IF /\ pcfg.save_detection_frames
          /\ local["output"].detections # <<>>
          /\ frame_count - last_saved_frame >= pcfg.frame_save_interval
       THEN /\ files' = WriteFile(
                          WriteFile(files, DetectionPath(clock, "jpg"),
                                    Jpeg(FrameNames[local["output"].frame.id])),
                          DetectionPath(clock, "json"), local["output"].detections)
            /\ last_saved_frame' = frame_count
            /\ obs' = [obs EXCEPT !.saves = Append(@, TRUE)]
       ELSE /\ UNCHANGED <<files, last_saved_frame>>
            /\ obs' = IF local["output"].detections # <<>>
                      THEN [obs EXCEPT !.saves = Append(@, FALSE)]
                      ELSE obs
    /\ pc' = [pc EXCEPT !["output"] = "loop"]
    /\ UNCHANGED <<clock, cfg, am, callers, sends, hist,
                   running, cap, frame_queue, result_queue, frame_count, last_alert_time,
                   pcfg, local, zvars, xvars>>

MainStep == MRun \/ (\E s \in Stages : MStart(s) \/ MJoin(s)) \/ MCleanup

CaptureStep == CLoop \/ CRead \/ CPut \/ CCount

ProcessStep == PLoop \/ PGet \/ PInfer \/ PPut

\* the output thread, inside handle_output or inside the send_alert it called
OutputStep ==
    \/ OLoop \/ OGet \/ OAlert \/ OAlertDone \/ ODisplay \/ OSave
    \/ ACheck("output") \/ AImage("output") \/ AMeta("output") \/ AEmail("output")
    \/ ATelegram("output") \/ AReturn("output")

PipeNext ==
    \/ MainStep
    \/ MInterrupt
    \/ CaptureStep
    \/ ProcessStep
    \/ OutputStep
    \/ \E i \in 1 .. Len(sends) : ChannelSend(i)

\* the pipeline run in which time passes: alerts enabled, no display window
TimedRun == [pcfg |-> PipeConfig(2, FALSE, FALSE), alerts |-> TRUE]

\* time passes while the output thread waits for a result that is on its way, and
\* between the return of send_alert and the assignment of last_alert_time
OTick ==
    /\ \/ pc["output"] = "get" /\ result_queue # <<>>
       \/ pc["output"] = "send_alert" /\ callers["output"].pc = "idle"
    /\ Tick

PipeTimedNext ==
    \/ PipeNext
    \/ OTick


(***************************************************************************)
(* process_results called on the boxes of one frame                        *)
(***************************************************************************)

\* boxes per frame
MaxBoxes == 2

\* a zone that contains (20,50) and not (20,30), and one whose right edge runs from
\* (4,0) to (5,20)
Band == << <<0, 40>>, <<0, 60>>, <<40, 60>>, <<40, 40>> >>
Slant == << <<0, 0>>, <<4, 0>>, <<5, 20>>, <<0, 20>> >>

BoxExample == <<10, 10, 30, 50>>
BoxLow == <<10, 30, 30, 70>>
BoxOdd == <<1, 2, 8, 5>>

DetBoxes ==
    { Box(BoxIn, PersonClass), Box(BoxOut, PersonClass), Box(BoxExample, PersonClass),
      Box(BoxLow, PersonClass), Box(BoxOdd, PersonClass), Box(BoxIn, OtherClass) }

RECURSIVE SeqsUpTo(_, _)
SeqsUpTo(S, n) ==
    IF n = 0 THEN { <<>> }
    ELSE SeqsUpTo(S, n - 1) \cup {Append(q, x) : q \in SeqsUpTo(S, n - 1), x \in S}

BoxLists == SeqsUpTo(DetBoxes, MaxBoxes)

\* config['zones'] of the systems process_results is called in
DetectConfigs ==
    { << CfgZone("z1", AllKeys, "Z", Sq10, Red, TRUE) >>,
      << CfgZone("", AllKeys, "Z", Sq10, Red, TRUE),
         CfgZone("z2", AllKeys, "Y", Tri20, Green, TRUE) >>,
      << CfgZone("z1", AllKeys, "Z", Sq10, Red, FALSE),
         CfgZone("z2", AllKeys, "Y", Tri20, Green, TRUE) >>,
      << CfgZone("z1", AllKeys, "Z", Band, Red, TRUE),
         CfgZone("z2", AllKeys, "Y", Slant, Green, TRUE) >> }

NoCall == [called |-> FALSE, boxes |-> <<>>, tested |-> <<>>, detections |-> <<>>]

\* process_results, in a specification that does not call it on its own
DetectParked == det = NoCall

InitDetect ==
    /\ \E zcfg \in DetectConfigs : zones = LoadZones(<<>>, zcfg)
    /\ zlast = ZCall("init", None, -1, TRUE)
    /\ wr = WriterIdle
    /\ rd = ReaderIdle
    /\ edits = 0
    /\ det = NoCall

ProcessResults ==
    /\ \E boxes \in BoxLists :
          det' = [called |-> TRUE, boxes |-> boxes, tested |-> TestedPoints(boxes),
                  detections |-> process_results(zones, boxes)]
    /\ UNCHANGED <<avars, zvars, pvars, ta, pm, cl, offered, bm>>

DetectNext == ProcessResults


(***************************************************************************)
(* PerformanceMonitor (utils/performance_monitor.py)                       *)
(***************************************************************************)

\* PerformanceMonitor(max_samples): the capacity of each window
MaxSamples == 2
\* the last reading of time.time(), in ticks after the construction
MaxNow == 3
\* calls made on the monitor in one run
MaxPmCalls == 4

\* deque(maxlen=max_samples).append(x), without the eviction
PushAll(maxlen, w, x) == Append(w, x)

\* deque(maxlen=max_samples).append(x): a full window drops its oldest sample
Push(maxlen, w, x) == IF Len(w) >= maxlen THEN Append(Tail(w), x) ELSE Append(w, x)

\* fps = 1.0 / elapsed, as a fraction
Fps(elapsed) == [num |-> 1, den |-> elapsed]

\* memory_info.rss / 1024 / 1024, in MB, and the temperature read from the thermal
\* zone, in degrees
MemoryReadings == {64, 65}
TemperatureReadings == {40}

\* the four windows
Windows == {"fps_samples", "process_times", "memory_samples", "temperature_samples"}

\* the monitor after __init__(max_samples) at time now: empty windows, no timer, and
\* whether psutil and the thermal zone file are there.  calls, armed, valid_stops,
\* appended and log record the run: the calls made, whether start_process_timer was
\* called since the last stop or reset, the stops made while it was, the durations
\* appended, and for each window the samples appended to it since the last reset.
NewMonitor(now, max_samples, track_memory, track_temperature) ==
    [now |-> now, max_samples |-> max_samples,
     fps_samples |-> <<>>, last_frame_time |-> now,
     process_times |-> <<>>, process_start_time |-> NoArg,
     memory_samples |-> <<>>, track_memory |-> track_memory,
     temperature_samples |-> <<>>, track_temperature |-> track_temperature,
     calls |-> <<>>, armed |-> FALSE, valid_stops |-> 0, appended |-> 0,
     log |-> [w \in Windows |-> <<>>]]

\* the monitor, in a specification that does not use it
PerfParked == pm = NewMonitor(0, 1, FALSE, FALSE)

InitPerf ==
    \E max_samples \in 1 .. MaxSamples, track_memory \in BOOLEAN,
       track_temperature \in BOOLEAN :
        pm = NewMonitor(0, max_samples, track_memory, track_temperature)

\* stop_process_timer without its test of process_start_time
TimerRunningAlways(m) == TRUE

\* if self.process_start_time is not None
TimerRunning(m) == m.process_start_time.given

\* window.append(x) on one of the monitor's windows
Sample(m, window, x) ==
    [m EXCEPT ![window] = Push(m.max_samples, @, x),
              !.log[window] = Append(@, x)]

\* update_fps
UpdateFps(m) ==
    LET current_time == m.now
        elapsed == current_time - m.last_frame_time
        m1 == [m EXCEPT !.last_frame_time = current_time]
    IN IF elapsed > 0 THEN Sample(m1, "fps_samples", Fps(elapsed)) ELSE m1

\* the body of stop_process_timer when a timer is running; mem is the memory read,
\* temp the temperature read, or no value when the read fails and is passed over
StopRunning(m, mem, temp) ==
    LET elapsed == m.now - (IF m.process_start_time.given THEN m.process_start_time.val
                            ELSE 0)
        m1 == [Sample(m, "process_times", elapsed) EXCEPT
                        !.process_start_time = NoArg,
                        !.appended = @ + 1]
        m2 == UpdateFps(m1)
        m3 == IF m2.track_memory THEN Sample(m2, "memory_samples", mem) ELSE m2
    IN IF m3.track_temperature /\ temp.given
       THEN Sample(m3, "temperature_samples", temp.val)
       ELSE m3

RECURSIVE SumSeq(_)
SumSeq(w) == IF w = <<>> THEN 0 ELSE Head(w) + SumSeq(Tail(w))

\* fractions: the sum of two, and the sum of a sequence of them
Zero == [num |-> 0, den |-> 1]
FracAdd(a, b) == [num |-> a.num * b.den + b.num * a.den, den |-> a.den * b.den]
RECURSIVE FracSum(_)
FracSum(w) == IF w = <<>> THEN Zero ELSE FracAdd(Head(w), FracSum(Tail(w)))

\* get_fps: np.mean(self.fps_samples), 0.0 when empty
get_fps(m) ==
    IF m.fps_samples = <<>> THEN Zero
    ELSE [num |-> FracSum(m.fps_samples).num,
          den |-> FracSum(m.fps_samples).den * Len(m.fps_samples)]

\* get_process_time: np.mean(self.process_times) * 1000 as a fraction, 0.0 when empty
get_process_time(m) ==
    IF m.process_times = <<>> THEN [num |-> 0, den |-> 1]
    ELSE [num |-> SumSeq(m.process_times) * 1000, den |-> Len(m.process_times)]

\* get_memory_usage: np.mean(self.memory_samples), 0.0 when empty or not tracked
get_memory_usage(m) ==
    IF m.memory_samples = <<>> \/ ~m.track_memory THEN Zero
    ELSE [num |-> SumSeq(m.memory_samples), den |-> Len(m.memory_samples)]

\* get_temperature: np.mean(self.temperature_samples), 0.0 when empty or not tracked
get_temperature(m) ==
    IF m.temperature_samples = <<>> \/ ~m.track_temperature THEN Zero
    ELSE [num |-> SumSeq(m.temperature_samples), den |-> Len(m.temperature_samples)]

\* a call is made on the monitor
Called(m, op) == [m EXCEPT !.calls = Append(@, op)]

\* reset without its last line
KeepTimer(m) == m

\* self.process_start_time = None
ClearTimer(m) == [m EXCEPT !.process_start_time = NoArg]

\* time passes between two calls
PmTick ==
    /\ pm.now < MaxNow
    /\ pm' = [pm EXCEPT !.now = @ + 1]
    /\ UNCHANGED <<avars, zvars, pvars, det, ta, cl, offered, bm>>

start_process_timer ==
    /\ Len(pm.calls) < MaxPmCalls
    /\ pm' = [Called(pm, "start") EXCEPT !.process_start_time = Arg(pm.now),
                                         !.armed = TRUE]
    /\ UNCHANGED <<avars, zvars, pvars, det, ta, cl, offered, bm>>

stop_process_timer ==
    /\ Len(pm.calls) < MaxPmCalls
    /\ LET m == [Called(pm, "stop") EXCEPT
                    !.armed = FALSE,
                    !.valid_stops = IF pm.armed THEN @ + 1 ELSE @]
       IN IF TimerRunning(pm)
          THEN \E mem \in MemoryReadings, temp \in OptArgs(TemperatureReadings) :
                  pm' = StopRunning(m, mem, temp)
          ELSE pm' = m
    /\ UNCHANGED <<avars, zvars, pvars, det, ta, cl, offered, bm>>

update_fps ==
    /\ Len(pm.calls) < MaxPmCalls
    /\ pm' = UpdateFps(Called(pm, "fps"))
    /\ UNCHANGED <<avars, zvars, pvars, det, ta, cl, offered, bm>>

reset ==
    /\ Len(pm.calls) < MaxPmCalls
    /\ pm' = ClearTimer([Called(pm, "reset") EXCEPT
                 !.fps_samples = <<>>, !.process_times = <<>>,
                 !.memory_samples = <<>>, !.temperature_samples = <<>>,
                 !.last_frame_time = pm.now,
                 !.armed = FALSE, !.log = [w \in Windows |-> <<>>]])
    /\ UNCHANGED <<avars, zvars, pvars, det, ta, cl, offered, bm>>

PerfNext == PmTick \/ start_process_timer \/ stop_process_timer \/ update_fps \/ reset


(***************************************************************************)
(* ConfigLoader (utils/config_loader.py)                                   *)
(***************************************************************************)

\* required_sections
Sections == {"model", "camera", "system", "zones", "alerts", "output"}

\* a section of a configuration: where it comes from, whether it is a dictionary with
\* the keys _validate_config and _create_directories read (model.path;
\* output.output_dir and detection_frames_dir; alerts.history_dir), and its
\* target_classes entry: "none", a list, or a value that is not a list
SectionVal(from, complete, classes) ==
    [from |-> from, complete |-> complete, target_classes |-> classes]

\* _create_default_config
DefaultSection(section) ==
    SectionVal("default", TRUE, IF section = "model" THEN "[0]" ELSE "none")
DefaultConfig == [section \in Sections |-> DefaultSection(section)]

\* what a configuration file may hold for a section
FileSections(section) ==
    IF section = "model"
    THEN {SectionVal("file", TRUE, "[0, 2]"), SectionVal("file", TRUE, "0"),
          SectionVal("file", TRUE, "none"), SectionVal("file", FALSE, "[0, 2]")}
    ELSE IF section \in {"output", "alerts"}
    THEN {SectionVal("file", TRUE, "none"), SectionVal("file", FALSE, "none")}
    ELSE {SectionVal("file", TRUE, "none")}

\* the state of the configuration file: missing, not JSON, JSON that is not an object,
\* or an object with some sections
File(kind, doc) == [kind |-> kind, doc |-> doc]
MissingFile == File("missing", <<>>)
Absent == SectionVal("absent", FALSE, "none")
Options(section) == FileSections(section) \cup {Absent}
Doc(choice) == [section \in {s \in Sections : choice[s] # Absent} |-> choice[section]]
DictFiles ==
    { File("dict", Doc([model |-> m, camera |-> c, system |-> s, zones |-> z,
                        alerts |-> a, output |-> o])) :
        m \in Options("model"), c \in Options("camera"), s \in Options("system"),
        z \in Options("zones"), a \in Options("alerts"), o \in Options("output") }
Files == {MissingFile, File("garbled", <<>>), File("notdict", <<>>)} \cup DictFiles

\* what the operating system does to the directories load_config creates: all are
\* made, the directory of the file cannot be made, or one of the others cannot
Environments == {"ok", "config_dir_fails", "dirs_fail"}

\* ConfigLoader.__init__, with the file as it is
NewLoader(file) ==
    [file |-> file, config |-> <<>>, called |-> FALSE, seen |-> MissingFile,
     raised |-> FALSE]

ConfigParked == cl = NewLoader(MissingFile)

InitConfig == cl = NewLoader(MissingFile)

\* _validate_config without its first loop
KeepSections(config) == config

\* the loop over required_sections of _validate_config
FillSections(config) ==
    [section \in Sections |->
        IF section \in DOMAIN config THEN config[section] ELSE DefaultSection(section)]

\* if not isinstance(self.config["model"].get("target_classes", []), list)
NotAList(classes) == classes = "0"

\* the target_classes step of _validate_config
SetTargetClasses(config) ==
    IF NotAList(config["model"].target_classes)
    THEN [config EXCEPT !["model"].target_classes = "[0]"]
    ELSE config

\* _validate_config and _create_directories raise on this configuration
ValidateRaises(config, env) ==
    \/ \E section \in {"model", "output", "alerts"} :
          section \notin DOMAIN config \/ ~config[section].complete
    \/ env # "ok"

\* load_config: the configuration returned, whether the except branch was taken, and
\* the file afterwards (the defaults are saved when the file was missing, unless the
\* write fails)
LoadConfig(file, env, save_ok) ==
    LET saved == IF save_ok THEN File("dict", DefaultConfig) ELSE file
        failed(f) == [config |-> DefaultConfig, raised |-> TRUE, file |-> f]
        validated(config, f) ==
            LET filled == FillSections(config)
            IN IF ValidateRaises(filled, env)
               THEN failed(f)
               ELSE [config |-> SetTargetClasses(filled), raised |-> FALSE, file |-> f]
    IN IF file.kind = "missing"
       THEN IF env = "config_dir_fails" THEN failed(file)
            ELSE validated(DefaultConfig, saved)
       ELSE IF file.kind \in {"garbled", "notdict"} THEN failed(file)
       ELSE validated(file.doc, file)

\* the file is written, replaced or deleted before a loader reads it
EditFile ==
    /\ ~cl.called
    /\ \E file \in Files : cl' = [cl EXCEPT !.file = file]
    /\ UNCHANGED <<avars, zvars, pvars, det, ta, pm, offered, bm>>

load_config ==
    /\ \E env \in Environments, save_ok \in BOOLEAN :
          /\ env = "config_dir_fails" => cl.file.kind = "missing"
          /\ LET r == LoadConfig(cl.file, env, save_ok)
             IN cl' = [file |-> r.file, config |-> r.config, called |-> TRUE,
                       seen |-> cl.file, raised |-> r.raised]
    /\ UNCHANGED <<avars, zvars, pvars, det, ta, pm, offered, bm>>

\* the program ends and a later run constructs a new loader
ConfigLoaderInit ==
    /\ cl.called
    /\ cl' = NewLoader(cl.file)
    /\ UNCHANGED <<avars, zvars, pvars, det, ta, pm, offered, bm>>

ConfigNext == EditFile \/ load_config \/ ConfigLoaderInit


(***************************************************************************)
(* run_benchmark: the warmup loop, the measurement loop and the report     *)
(***************************************************************************)

\* frames asked for, warmup frames asked for, and frames the camera delivers before
\* a read fails
MaxBenchFrames == 3
MaxWarmup == 1
MaxSupply == 4

\* 'frames_processed': min(i + 1, frames), i being the variable of the measurement
\* loop
FramesProcessed(b) == IF b.i + 1 < b.frames THEN b.i + 1 ELSE b.frames

\* no call yet; i is unbound until the measurement loop assigns it
NewBenchmark(supply) ==
    [pc |-> "idle", frames |-> 0, warmup_frames |-> 0, supply |-> supply, warmed |-> 0,
     i |-> 0, bound |-> FALSE, broke |-> FALSE, processed |-> 0, frames_processed |-> 0,
     ret |-> "", raised |-> ""]

BenchParked == bm = NewBenchmark(0)

InitBench == \E supply \in 0 .. MaxSupply : bm = NewBenchmark(supply)

\* run_benchmark(detection_system, frames, warmup_frames) is called: the output
\* settings are switched off, the monitor is reset, camera and model are set up
BenchCall ==
    /\ bm.pc = "idle"
    /\ \E frames \in 0 .. MaxBenchFrames, warmup_frames \in 0 .. MaxWarmup :
          bm' = [bm EXCEPT !.pc = "warmup", !.frames = frames,
                           !.warmup_frames = warmup_frames]
    /\ UNCHANGED <<avars, zvars, pvars, det, ta, pm, cl, offered>>

\* one pass of 'for _ in range(warmup_frames)': a failed read returns None, the
\* model call returns or raises; after the loop perf_monitor.reset()
BenchWarmup ==
    /\ bm.pc = "warmup"
    /\ IF bm.warmed < bm.warmup_frames
       THEN IF bm.supply = 0
            THEN bm' = [bm EXCEPT !.pc = "done", !.ret = "None"]
            ELSE \/ bm' = [bm EXCEPT !.supply = @ - 1, !.warmed = @ + 1]
                 \/ bm' = [bm EXCEPT !.supply = @ - 1, !.pc = "done", !.raised = "model"]
       ELSE bm' = [bm EXCEPT !.pc = "measure"]
    /\ UNCHANGED <<avars, zvars, pvars, det, ta, pm, cl, offered>>

\* one pass of 'for i in range(frames)': i is assigned, then the read; a failed read
\* breaks out of the loop; otherwise the frame is timed and processed, unless the
\* model call raises
BenchMeasure ==
    /\ bm.pc = "measure"
    /\ LET next == IF bm.bound THEN bm.i + 1 ELSE 0
       IN IF next < bm.frames
          THEN IF bm.supply = 0
               THEN bm' = [bm EXCEPT !.i = next, !.bound = TRUE, !.broke = TRUE,
                                     !.pc = "stats"]
               ELSE \/ bm' = [bm EXCEPT !.i = next, !.bound = TRUE, !.supply = @ - 1,
                                        !.processed = @ + 1]
                    \/ bm' = [bm EXCEPT !.i = next, !.bound = TRUE, !.supply = @ - 1,
                                        !.pc = "done", !.raised = "model"]
          ELSE bm' = [bm EXCEPT !.pc = "stats"]
    /\ UNCHANGED <<avars, zvars, pvars, det, ta, pm, cl, offered>>

\* the statistics and the results dictionary: reading i while it is unbound raises
\* UnboundLocalError; otherwise the report is saved and returned
BenchReport ==
    /\ bm.pc = "stats"
    /\ IF ~bm.bound
       THEN bm' = [bm EXCEPT !.pc = "done", !.raised = "UnboundLocalError"]
       ELSE bm' = [bm EXCEPT !.pc = "done", !.ret = "results",
                             !.frames_processed = FramesProcessed(bm)]
    /\ UNCHANGED <<avars, zvars, pvars, det, ta, pm, cl, offered>>

BenchNext == BenchCall \/ BenchWarmup \/ BenchMeasure \/ BenchReport


(***************************************************************************)
(* Specifications, one per component                                       *)
(***************************************************************************)

BenchInit ==
    /\ InitBench /\ ZonesParked /\ AlertParked /\ PipeParked /\ DetectParked
    /\ PerfParked /\ ConfigParked /\ GateParked
SpecBench == BenchInit /\ [][BenchNext]_vars

ZoneInit == InitZones /\ AlertParked /\ PipeParked /\ DetectParked /\ PerfParked /\ ConfigParked /\ GateParked /\ BenchParked
SpecZone == ZoneInit /\ [][ZoneNext]_vars
SpecZoneConc == ZoneInit /\ [][ZoneConcNext]_vars
AlertInit == InitAlert /\ ZonesParked /\ PipeParked /\ DetectParked /\ PerfParked /\ ConfigParked /\ GateParked /\ BenchParked
SpecAlert == AlertInit /\ [][AlertNext]_vars
PipeInit ==
    /\ \E r \in PipeRuns : InitPipe(r.pcfg) /\ InitPipeZones /\ InitPipeAlert(r.alerts)
    /\ DetectParked /\ PerfParked /\ ConfigParked /\ GateParked /\ BenchParked
SpecPipe == PipeInit /\ [][PipeNext]_vars
TimedInit ==
    /\ InitPipe(TimedRun.pcfg) /\ InitPipeZones /\ InitPipeAlert(TimedRun.alerts)
    /\ DetectParked /\ PerfParked /\ ConfigParked /\ GateParked /\ BenchParked
SpecPipeTimed == TimedInit /\ [][PipeTimedNext]_vars
SpecAlertTest == AlertInit /\ [][AlertTestNext]_vars
SpecGate == AlertInit /\ [][GateNext]_vars
PerfInit == InitPerf /\ ZonesParked /\ AlertParked /\ PipeParked /\ DetectParked /\ ConfigParked /\ GateParked /\ BenchParked
SpecPerf == PerfInit /\ [][PerfNext]_vars
DetectInit == InitDetect /\ AlertParked /\ PipeParked /\ PerfParked /\ ConfigParked /\ GateParked /\ BenchParked
SpecDetect == DetectInit /\ [][DetectNext]_vars
ConfigInit ==
    /\ InitConfig /\ ZonesParked /\ AlertParked /\ PipeParked /\ DetectParked
    /\ PerfParked /\ GateParked /\ BenchParked
SpecConfig == ConfigInit /\ [][ConfigNext]_vars
\* each thread that can take a step eventually takes one
SpecPipeLive ==
    /\ SpecPipe
    /\ WF_vars(MainStep)
    /\ WF_vars(CaptureStep)
    /\ WF_vars(ProcessStep)
    /\ WF_vars(OutputStep)

(***************************************************************************)
(* Properties of the zone table under SpecZone                             *)
(***************************************************************************)

IsMutation(c) == c.op \in {"add", "update", "remove"}

\* positions of the enabled zones whose polygon contains the point
Matches(zs, point) ==
    {i \in 1 .. Len(zs) : zs[i].alert_enabled /\ Contains(zs[i].polygon, point)}

FirstMatch(zs, point) ==
    IF Matches(zs, point) = {} THEN None
    ELSE zs[CHOOSE i \in Matches(zs, point) : \A j \in Matches(zs, point) : i <= j].id

\* C3: check_point_in_zones returns the id of the first zone, in insertion order, that
\* is enabled and whose polygon contains the point, and None when there is none; the
\* id returned is never that of a disabled zone or of a zone not in the table.  The
\* square (0,0),(0,10),(10,10),(10,0) contains (5,5) and not (15,15).
C3_LocateFirstEnabledMatch ==
    /\ Contains(Polygon(Sq10), <<5, 5>>)
    /\ ~Contains(Polygon(Sq10), <<15, 15>>)
    /\ zlast.op = "locate" =>
          /\ zlast.ret = FirstMatch(zones, zlast.point)
          /\ zlast.ret # None =>
                /\ HasZone(zones, zlast.ret)
                /\ zones[ZoneIndex(zones, zlast.ret)].alert_enabled

\* two overlapping zones: one located past a disabled zone that also contains the point
C3_Witness ==
    /\ zlast.op = "locate"
    /\ Len(zones) = 2
    /\ Contains(zones[1].polygon, zlast.point)
    /\ Contains(zones[2].polygon, zlast.point)
    /\ ~zones[1].alert_enabled
    /\ zlast.ret = zones[2].id

\* C10: add with an id already in the table or with fewer than 3 points, update of an
\* unknown id and remove of an unknown id return false, and a call that returned
\* false left the table exactly as it was.
C10_RejectedLeavesTable ==
    [][LET c == zlast'
       IN /\ (c.op = "add" /\ (HasZone(zones, c.id) \/ c.npts < 3))
                => (~c.ok /\ ~c.raised)
          /\ (c.op \in {"update", "remove"} /\ ~HasZone(zones, c.id))
                => (~c.ok /\ ~c.raised)
          /\ (IsMutation(c) /\ ~c.ok /\ ~c.raised) => zones' = zones]_vars

\* an add of a second zone was rejected for having 2 points only
C10_Witness ==
    /\ zlast.op = "add" /\ ~zlast.ok /\ zlast.npts = 2
    /\ Len(zones) = 1 /\ zones[1].id # zlast.id

\* C11: in every reachable state of the zone table, after any sequence of load, add,
\* update and remove calls with arbitrary arguments, every zone has at least 3 vertices
\* and its polygon is the one built from its stored vertex list.
C11_ZonesWellFormed ==
    \A i \in 1 .. Len(zones) :
        /\ Len(zones[i].points) >= 3
        /\ zones[i].polygon = Polygon(zones[i].points)

\* C11, the vertex count alone
C11_AtLeastThreeVertices == \A i \in 1 .. Len(zones) : Len(zones[i].points) >= 3

\* the zone with this id, in a table that has it
Zone(zs, zone_id) == zs[ZoneIndex(zs, zone_id)]

\* an enabled zone before position i contains the point
MatchedBefore(zs, i, point) == \E j \in Matches(zs, point) : j < i

\* C12: after update_zone(id, points=P) with at least 3 points returned True for an
\* existing zone, check_point_in_zones decides containment for that zone with the
\* polygon of P only (a point is attributed to the zone iff the zone is enabled, the
\* polygon of P contains it and no enabled zone before it does), the zone keeps its
\* position, its name is unchanged and its alert_enabled is unchanged unless supplied;
\* check_point_in_zones itself and calls on other ids leave the zone as it is.
C12_Locate ==
    (zlast.op = "update" /\ zlast.ok /\ zlast.npts >= 3) =>
        LET i == ZoneIndex(zones, zlast.id)
        IN \A point \in TestPoints :
              check_point_in_zones(zones, point) = zlast.id <=>
                 /\ zones[i].alert_enabled
                 /\ Contains(Polygon(zlast.points), point)
                 /\ ~MatchedBefore(zones, i, point)

C12_Step ==
    LET c == zlast'
    IN /\ (c.op = "update" /\ c.ok /\ c.npts >= 3) =>
             LET i == ZoneIndex(zones, c.id)
             IN /\ Len(zones') = Len(zones)
                /\ zones'[i].id = c.id
                /\ zones'[i].points = c.points
                /\ zones'[i].polygon = Polygon(c.points)
                /\ zones'[i].name = zones[i].name
                /\ ~c.alert_given => zones'[i].alert_enabled = zones[i].alert_enabled
       /\ c.op = "locate" => zones' = zones
       /\ c.op \in {"add", "update", "remove"} =>
             \A z \in ZoneIds \ {c.id} :
                 HasZone(zones, z) => HasZone(zones', z) /\ Zone(zones', z) = Zone(zones, z)

C12_UpdateReplacesPolygon == []C12_Locate /\ [][C12_Step]_vars

\* an update has replaced the square by the triangle: (8,2), inside the square and
\* outside the triangle, is no longer attributed to the zone, and (2,8) is
C12_Witness ==
    /\ zlast.op = "update" /\ zlast.ok
    /\ zlast.old = Sq10 /\ zlast.points = Tri10
    /\ Contains(Polygon(zlast.old), <<8, 2>>)
    /\ Zone(zones, zlast.id).alert_enabled
    /\ check_point_in_zones(zones, <<2, 8>>) = zlast.id
    /\ check_point_in_zones(zones, <<8, 2>>) = None

\* the table without its entry at position i
Without(zs, i) == SubSeq(zs, 1, i - 1) \o SubSeq(zs, i + 1, Len(zs))

\* C13, the calls that must succeed: add of an absent id with at least 3 points,
\* update with at least 3 points and remove of a present id return True
C13_Succeeds ==
    LET c == zlast'
    IN /\ (c.op = "add" /\ ~HasZone(zones, c.id) /\ c.npts >= 3) => c.ok
       /\ (c.op = "update" /\ HasZone(zones, c.id) /\ c.npts >= 3) => c.ok
       /\ (c.op = "remove" /\ HasZone(zones, c.id)) => c.ok

\* C13, what the calls do to the table: a successful add puts the zone after all
\* others, an update keeps every id at its position, a successful remove takes out the
\* zone's entry and nothing else, and update or remove of an absent id is rejected
C13_Effects ==
    LET c == zlast'
    IN /\ (c.op = "add" /\ c.ok) =>
             /\ ~HasZone(zones, c.id)
             /\ zones' = Append(zones, Zone(zones', c.id))
       /\ (c.op = "update" /\ HasZone(zones, c.id)) =>
             /\ Len(zones') = Len(zones)
             /\ \A i \in 1 .. Len(zones) : zones'[i].id = zones[i].id
       /\ (c.op = "remove" /\ c.ok) =>
             /\ HasZone(zones, c.id)
             /\ ~HasZone(zones', c.id)
             /\ zones' = Without(zones, ZoneIndex(zones, c.id))
       /\ (c.op \in {"update", "remove"} /\ ~HasZone(zones, c.id)) =>
             ~c.ok /\ ~c.raised /\ zones' = zones

\* C13, the three calls in a row on the table of this state: for an id not in it,
\* add, update and remove give back the table (same zones in the same order)
C13_RoundTrip ==
    \A zone_id \in ZoneIds : ~HasZone(zones, zone_id) =>
        \A p \in ValidPoints, q \in ValidPoints, alert_enabled \in BOOLEAN :
            LET added == SetItem(zones, zone_id, NewZone(zone_id, "Z", p, Red, alert_enabled))
                updated == UpdateFields(added, zone_id, Arg(q), NoArg, NoArg)
                removed == DelItem(updated, zone_id)
            IN /\ ~AddRejected(zones, zone_id, p)
               /\ HasZone(updated, zone_id)
               /\ ~HasZone(removed, zone_id)
               /\ removed = zones

C13_RoundTripWhenBuilt == []C13_RoundTrip /\ [][C13_Effects]_vars

\* cap.read() has just failed: the capture stage left its read without a frame
FetchFailed == pc["capture"] = "read" /\ pc'["capture"] \notin {"read", "put"}

\* every item in the frame queue is a frame that a successful read returned
C14_QueueHoldsFetchedFrames ==
    \A i \in 1 .. Len(frame_queue) :
        /\ frame_queue[i].id \in 1 .. obs.fetched
        /\ frame_queue[i].box = SceneBox(frame_queue[i].id)

\* C14, the part about the queue: a failed read enqueues nothing
C14_NothingEnqueued == [][FetchFailed => frame_queue' = frame_queue]_vars

\* the zone a configuration entry describes
Configured(entry) ==
    [id |-> entry.id,
     name |-> IF "name" \in entry.data.keys THEN entry.data.name ELSE entry.id,
     polygon |-> Polygon(entry.data.points),
     points |-> entry.data.points,
     color |-> IF "color" \in entry.data.keys THEN entry.data.color ELSE Red,
     alert_enabled |-> IF "alert_enabled" \in entry.data.keys
                       THEN entry.data.alert_enabled ELSE TRUE]

\* the zones of the entries from i on that have at least 3 points, in their order
RECURSIVE ConfiguredFrom(_, _)
ConfiguredFrom(zones_config, i) ==
    IF i > Len(zones_config) THEN <<>>
    ELSE LET entry == zones_config[i]
         IN (IF "points" \in entry.data.keys /\ Len(entry.data.points) >= 3
             THEN << Configured(entry) >> ELSE <<>>)
            \o ConfiguredFrom(zones_config, i + 1)

\* a load into an empty table leaves the configured zones of at least 3 points
C23_LoadStep ==
    (zones = <<>> /\ zlast'.op = "load") => zones' = ConfiguredFrom(zlast'.cfg, 1)

C23_LoadWhenBuilt ==
    /\ [](zlast.op = "init" => zones = ConfiguredFrom(zlast.cfg, 1))
    /\ [][(zones = <<>> /\ zlast'.op = "load" /\ ~zlast'.raised)
            => zones' = ConfiguredFrom(zlast'.cfg, 1)]_vars

\* a load skipped a zone of 2 points and stored the zone after it, enabled by default
C23_SkippedOne ==
    /\ zlast.op \in {"init", "load"} /\ Len(zlast.cfg) = 2
    /\ Len(zlast.cfg[1].data.points) = 2
    /\ Len(zones) = 1 /\ zones[1].id = zlast.cfg[2].id /\ zones[1].alert_enabled

\* the last load_config call returned a configuration with the six sections
C24_AllSections == cl.called => DOMAIN cl.config = Sections

\* a missing file, or an error while loading, gives the complete defaults
C24_Defaults == (cl.called /\ (cl.seen.kind = "missing" \/ cl.raised)) => cl.config = DefaultConfig

\* the sections of the file are returned as loaded, the others are the defaults
C24_KeptAsLoaded ==
    (cl.called /\ cl.seen.kind = "dict" /\ ~cl.raised) =>
        \A section \in Sections :
            cl.config[section] = IF section \in DOMAIN cl.seen.doc
                                 THEN cl.seen.doc[section]
                                 ELSE DefaultSection(section)

\* the same, the model section being returned with target_classes [0] when the file
\* holds a target_classes that is not a list
C24_KeptButTargetClasses ==
    (cl.called /\ cl.seen.kind = "dict" /\ ~cl.raised) =>
        \A section \in Sections :
            cl.config[section] =
                IF section \notin DOMAIN cl.seen.doc THEN DefaultSection(section)
                ELSE IF section = "model" /\ cl.seen.doc[section].target_classes = "0"
                THEN [cl.seen.doc[section] EXCEPT !.target_classes = "[0]"]
                ELSE cl.seen.doc[section]

\* C24: load_config always returns a configuration with the six sections model,
\* camera, system, zones, alerts and output: the defaults when the file is missing,
\* the file's sections as loaded with the missing ones filled from the defaults, and
\* the complete defaults when loading raises an error.
C24_LoadConfig == C24_AllSections /\ C24_Defaults /\ C24_KeptAsLoaded

\* C24 as the code has it: a section of the file is returned as loaded, except for a
\* target_classes in the model section that is not a list, which is returned as [0]
C24_LoadConfigNormalised == C24_AllSections /\ C24_Defaults /\ C24_KeptButTargetClasses

\* a file with three of the sections was loaded and the other three were filled in
C24_Witness ==
    /\ cl.called /\ ~cl.raised
    /\ DOMAIN cl.seen.doc = {"model", "zones", "alerts"}
    /\ cl.config["zones"].from = "file" /\ cl.config["model"].from = "file"
    /\ cl.config["output"] = DefaultSection("output")

\* a file whose model section holds target_classes 0 was loaded
C24_TargetClassesReplaced ==
    /\ cl.called /\ ~cl.raised /\ cl.seen.kind = "dict"
    /\ "model" \in DOMAIN cl.seen.doc /\ cl.seen.doc["model"].target_classes = "0"
    /\ cl.config["model"].target_classes = "[0]"

\* loading a file that is not JSON, or whose output section lacks output_dir, gave
\* the defaults
C24_ErrorGaveDefaults ==
    /\ cl.called /\ cl.raised /\ cl.seen.kind = "dict"
    /\ cl.config = DefaultConfig

\* C25: replacing the zone set by loading a new configuration into a live zone manager
\* is wholesale: after a load that returned, the table holds exactly the zones of the
\* new configuration, the zones absent from it being gone (and a concurrent reader
\* sees the complete old table or the complete new one).
C25_LoadReplacesTable ==
    [][(zlast'.op = "load" /\ ~zlast'.raised)
          => zones' = ConfiguredFrom(zlast'.cfg, 1)]_vars

\* what load_zones does on a live manager: the zones of the configuration are stored
\* over the table, a zone the configuration does not name stays as it was
C25_LoadMerges ==
    [][(zlast'.op = "load" /\ ~zlast'.raised) =>
          /\ \A i \in 1 .. Len(zones) :
                ~(\E j \in 1 .. Len(zlast'.cfg) :
                     /\ zlast'.cfg[j].id = zones[i].id
                     /\ Len(Get(zlast'.cfg[j].data, "points", <<>>)) >= 3)
                    => \E k \in 1 .. Len(zones') : zones'[k] = zones[i]
          /\ \A j \in 1 .. Len(ConfiguredFrom(zlast'.cfg, 1)) :
                \E k \in 1 .. Len(zones') : zones'[k] = ConfiguredFrom(zlast'.cfg, 1)[j]]_vars

\* a zone stayed in the table through a load of the empty configuration
C25_OldZoneStays ==
    /\ zlast.op = "load" /\ zlast.cfg = <<>> /\ ~zlast.raised
    /\ zones # <<>>

\* C14: when a read fails, with reconnect_on_failure the camera is set up again and
\* the capture loop continues with the running flag as it was; without it the running
\* flag is set to false and the capture stage exits.  In both cases nothing is
\* enqueued for the failed read, so every item in the frame queue is a frame returned
\* by a successful read.
C14_FetchFailure ==
    /\ []C14_QueueHoldsFetchedFrames
    /\ [][FetchFailed =>
            /\ frame_queue' = frame_queue
            /\ IF pcfg.reconnect_on_failure
               THEN cap' = "open" /\ pc'["capture"] = "loop" /\ running' = running
               ELSE running' = FALSE /\ pc'["capture"] = "done"]_vars

\* what check_point_in_zones returns for the point tested for box i of the last call
LocatedIn(i) == check_point_in_zones(zones, det.tested[i])

\* box i is of a target class and its point is located in some zone
Located(i) == det.boxes[i].cls \in target_classes /\ LocatedIn(i) # None

\* the positions of the located boxes, in detector order
Hits == SelectSeq([i \in 1 .. Len(det.boxes) |-> i], LAMBDA i : Located(i))

\* C15: the detections list of a frame holds exactly one Detection for each box whose
\* class is a target class and whose feet point check_point_in_zones locates in some
\* zone, whatever the id of that zone, tagged with the id returned and in detector
\* order; boxes of other classes and boxes located in no enabled zone give none.
C15_DetectionPerLocatedBox ==
    det.called =>
        /\ Len(det.detections) = Len(Hits)
        /\ \A k \in 1 .. Len(Hits) :
              /\ k <= Len(det.detections)
              /\ det.detections[k] = Detection(det.boxes[Hits[k]], LocatedIn(Hits[k]))

\* C15 for the zones whose id is a non-empty string
C15_WhenIdsNonEmpty ==
    (det.called /\ \A i \in 1 .. Len(zones) : zones[i].id # "") =>
        /\ Len(det.detections) = Len(Hits)
        /\ \A k \in 1 .. Len(Hits) :
              det.detections[k] = Detection(det.boxes[Hits[k]], LocatedIn(Hits[k]))

\* box i of the last call gave a detection
Detected(i) ==
    \E k \in 1 .. Len(det.detections) :
        /\ det.detections[k].bbox = det.boxes[i].xyxy
        /\ det.detections[k].class_id = det.boxes[i].cls

\* the target boxes of the last call
TargetBoxes == {i \in 1 .. Len(det.boxes) : det.boxes[i].cls \in target_classes}

\* a vertex list and the exact bottom centre ((x1+x2)/2, y2) of a box, both in half
\* pixels, so that the bottom centre of a box with odd x1+x2 is a point of the grid
Doubled(points) == [i \in 1 .. Len(points) |-> <<2 * points[i][1], 2 * points[i][2]>>]
ExactBottomCentre2(box) == <<box[1] + box[3], 2 * box[4]>>

\* some enabled zone contains the exact bottom centre of the box
ExactlyInside(zs, box) ==
    \E i \in 1 .. Len(zs) :
        zs[i].alert_enabled /\ Contains(Polygon(Doubled(zs[i].points)), ExactBottomCentre2(box))

\* C16 as stated: the point tested for a box (x1,y1,x2,y2) is ((x1+x2)/2, y2), and the
\* box is an intrusion iff that point lies in a zone.
C16_ExactBottomCentre ==
    det.called =>
        \A i \in TargetBoxes :
            LET box == det.boxes[i].xyxy
            IN /\ 2 * det.tested[i][1] = box[1] + box[3]
               /\ det.tested[i][2] = box[4]
               /\ Detected(i) <=> ExactlyInside(zones, box)

\* C16: the point tested for a box (x1,y1,x2,y2) with integer coordinates is
\* ((x1+x2) div 2, y2), the bottom centre with x rounded down, never the centroid:
\* box (10,10,30,50) is tested at (20,50); a box is an intrusion iff
\* check_point_in_zones returns a non-empty id for that point, so a box whose centroid
\* is inside a zone and whose bottom centre is outside is not an intrusion, and a box
\* whose bottom centre is inside is one even when its centroid is outside.
C16_FeetAnchor ==
    /\ Feet(BoxExample) = <<20, 50>>
    /\ det.called =>
          \A i \in TargetBoxes :
              LET box == det.boxes[i].xyxy
                  anchor == <<(box[1] + box[3]) \div 2, box[4]>>
              IN /\ det.tested[i] = anchor
                 /\ Detected(i) <=> Truthy(check_point_in_zones(zones, anchor))

\* one frame with box (10,10,30,50), bottom centre inside the zone and centroid
\* outside, and box (10,30,30,70), centroid inside and bottom centre outside: the
\* first is the only detection
C16_Witness ==
    /\ det.called
    /\ det.boxes = << Box(BoxExample, PersonClass), Box(BoxLow, PersonClass) >>
    /\ zones[1].polygon = Polygon(Band) /\ zones[1].alert_enabled
    /\ ~Contains(zones[1].polygon, Centroid(BoxExample))
    /\ Contains(zones[1].polygon, Centroid(BoxLow))
    /\ det.tested = << <<20, 50>>, <<20, 70>> >>
    /\ det.detections = << Detection(Box(BoxExample, PersonClass), zones[1].id) >>

\* box (1,2,8,5) is tested at (4,5), inside the zone whose edge passes x = 4.25 at
\* y = 5, while its exact bottom centre (4.5,5) is outside
C16_RoundedDownInside ==
    /\ det.called
    /\ det.boxes = << Box(BoxOdd, PersonClass) >>
    /\ det.tested = << <<4, 5>> >>
    /\ Len(det.detections) = 1
    /\ ~ExactlyInside(zones, BoxOdd)

\* C6: a check_point_in_zones call overlapped by one add_zone, update_zone or
\* remove_zone call of another thread does not fail, and returns what it returns on
\* the table as it was before or after that call.
C6_LocateSafeUnderMutation ==
    (rd.op = "locate" /\ rd.nmut <= 1) =>
        /\ rd.pc # "raised"
        /\ rd.pc = "returned" => rd.ret \in rd.allowed

\* C6, the returned value alone
C6_LocateBeforeOrAfter ==
    (rd.op = "locate" /\ rd.nmut <= 1 /\ rd.pc = "returned") => rd.ret \in rd.allowed

\* C7: draw_zones, running while update_zone replaces a zone's points, reads for that
\* zone a polygon that is the one built from the vertex list it read.
C7_UpdateGeometryAtomic ==
    (rd.op = "draw" /\ rd.pc = "d_name") => rd.seen_poly = Polygon(rd.seen_pts)


(***************************************************************************)
(* Properties of the alert dispatcher                                      *)
(***************************************************************************)

\* an attempt that passed the gate (whatever became of it afterwards)
Admitted(e) == e.ret # "false"

CooldownOver(e) == e.at - e.last >= cfg.cooldown_seconds

\* attempts decided at t = 0, 30 and 61 seconds of the run
ThreeAttempts ==
    /\ Len(hist) = 3
    /\ hist[1].at = StartClock
    /\ hist[2].at = StartClock + 30
    /\ hist[3].at = StartClock + 61

C2_Gate ==
    /\ \A k \in 1 .. Len(hist) :
          IF cfg.enabled
          THEN Admitted(hist[k]) <=> CooldownOver(hist[k])
          ELSE hist[k].ret = "false"
    /\ Cardinality(files) <= 2 * Cardinality({k \in 1 .. Len(hist) : Admitted(hist[k])})
    /\ (cfg.enabled /\ ThreeAttempts) =>
          /\ Admitted(hist[1]) /\ ~Admitted(hist[2]) /\ Admitted(hist[3])
          /\ ( /\ hist[1].ret = "true" /\ hist[3].ret = "true"
               /\ hist[1].img /\ hist[3].img
               /\ hist[1].stamp # hist[3].stamp )
             => Cardinality(files) = 4

C2_Decide ==
    Len(hist') = Len(hist) + 1 =>
        LET e == hist'[Len(hist')]
        IN  /\ e.at = clock
            /\ e.last = am.last_alert_time
            /\ IF Admitted(e)
               THEN am'.last_alert_time = clock /\ UNCHANGED <<files, sends>>
               ELSE UNCHANGED <<am, files, sends>>

C2_Persist ==
    /\ files' # files =>
          \E t \in Callers :
             /\ am.alert_lock = t
             /\ \/ callers[t].pc = "img" /\ callers'[t].pc = "meta"
                \/ callers[t].pc = "meta" /\ callers'[t].pc = "email"
    /\ \A k \in 1 .. Len(hist) :
          (hist[k].ret = "pending" /\ hist'[k].ret = "true") =>
             /\ HasFile(files', AlertPath(hist[k].stamp, "json"))
             /\ hist[k].img => HasFile(files', AlertPath(hist[k].stamp, "jpg"))

Isolated(i, j) ==
    /\ sends[i].k = sends[j].k
    /\ sends[i].state = "failed"
    /\ sends[j].state = "ok"

\* no other dispatch named its files by the same second
OwnStamp(k) == \A k2 \in 1 .. Len(hist) : k2 # k => hist[k2].stamp # hist[k].stamp

\* C4: when one channel's send of an admitted dispatch fails and the other's succeeds,
\* send_alert returns true (no exception reaches the caller), and the succeeding
\* channel has received the image and the detections of that dispatch.
C4_ChannelIsolation ==
    \A i, j \in 1 .. Len(sends) :
       Isolated(i, j) =>
          LET k == sends[j].k
          IN  /\ hist[k].ret \in {"pending", "true"}
              /\ hist[k].ret = "pending" =>
                    \E t \in Callers : callers[t].k = k /\ callers[t].pc \in {"telegram", "ret"}
              /\ \A t \in Callers : callers[t].k = k => ~callers[t].exc
              /\ sends[j].dets = ReadFile(files, AlertPath(hist[k].stamp, "json"))
                    \/ ~OwnStamp(k)
              /\ OwnStamp(k) => sends[j].image = Jpeg(sends[j].frame)

C4_Witness ==
    \E i, j, i2, j2 \in 1 .. Len(sends) :
       /\ Isolated(i, j) /\ sends[i].chan = "email" /\ sends[j].chan = "telegram"
       /\ Isolated(i2, j2) /\ sends[i2].chan = "telegram" /\ sends[j2].chan = "email"
       /\ hist[sends[j].k].ret = "true" /\ hist[sends[j2].k].ret = "true"
       /\ sends[j].image = Jpeg(sends[j].frame)
       /\ sends[j2].image = Jpeg(sends[j2].frame)

\* a step of send_alert and of the channel threads can be taken whatever the state of
\* the sends started so far: starting the next channel's thread, returning, a waiting
\* attempt's cooldown decision once the lock is free, and each started send
C17_NeverBlocked ==
    /\ \A t \in Callers :
          /\ callers[t].pc = "email" => ENABLED AEmail(t)
          /\ callers[t].pc = "telegram" => ENABLED ATelegram(t)
          /\ callers[t].pc = "ret" => ENABLED AReturn(t)
          /\ (callers[t].pc = "acquire" /\ am.alert_lock = "free") => ENABLED ACheck(t)
    /\ \A i \in 1 .. Len(sends) : sends[i].state = "started" => ENABLED ChannelSend(i)

\* thread t ends its send_alert call in this step
Leaves(t, pcs) == callers[t].pc \in pcs /\ callers'[t].pc = "idle"

\* C17 as stated: channel sends are not awaited, and every admitted dispatch returns
\* true whatever its sends do.
C17_AdmittedReturnsTrue ==
    /\ []C17_NeverBlocked
    /\ [][\A t \in Callers :
            Leaves(t, {"img", "meta", "email", "telegram", "ret"}) =>
               hist'[callers[t].k].ret = "true" /\ ~callers'[t].exc]_vars

\* the decisions of one gate for attempts at these times, from the attempt i on, last
\* being the time of the last admitted one before it
RECURSIVE GateFrom(_, _, _)
GateFrom(times, i, last) ==
    IF i > Len(times) THEN <<>>
    ELSE LET admit == cfg.enabled /\ times[i] - last >= cfg.cooldown_seconds
         IN << admit >> \o GateFrom(times, i + 1, IF admit THEN times[i] ELSE last)

\* the decisions taken so far are those of one gate on the times of the attempts: the
\* detections offered are not read
C27_Decisions ==
    /\ Len(hist) <= Len(offered)
    /\ [k \in 1 .. Len(hist) |-> Admitted(hist[k])]
         = GateFrom([k \in 1 .. Len(hist) |-> hist[k].at], 1, 0)

\* an admitted dispatch suppresses every attempt within the cooldown after it, for
\* whatever zone
C27_Suppression ==
    \A j, k \in 1 .. Len(hist) :
        (j < k /\ Admitted(hist[j]) /\ hist[k].at - hist[j].at < cfg.cooldown_seconds)
            => ~Admitted(hist[k])

\* C27: the cooldown is one global gate: whether an attempt is admitted depends on the
\* time since the last admitted dispatch and never on the zone ids of the detections,
\* so runs that differ only in the zone ids take the same decisions, and an admitted
\* alert for zone A suppresses an alert for zone B within the same cooldown window.
C27_OneGlobalGate == C27_Decisions /\ C27_Suppression

\* an alert for zone A was admitted and an alert for zone B, 30 seconds later, was not
C27_Witness ==
    /\ cfg.enabled /\ Len(hist) = 2
    /\ offered = << <<"person@zoneA">>, <<"person@zoneB">> >>
    /\ Admitted(hist[1]) /\ hist[2].ret = "false"
    /\ hist[2].at - hist[1].at = 30

\* the send_alert call of thread t is left by an exception in this step
Raises(t) == callers[t].pc \in {"img", "meta"} /\ callers'[t].exc

SendsStartedBy(k) == {i \in 1 .. Len(sends) : sends[i].k = k}

C36_RaiseStep ==
    \A t \in Callers : Raises(t) =>
        /\ hist'[callers[t].k].ret = "raised"
        /\ callers'[t].pc = "idle"
        /\ sends' = sends
        /\ am'.alert_lock = "free"
        /\ am'.last_alert_time = hist[callers[t].k].at
        /\ am'.last_alert_time = am.last_alert_time

C36_AfterRaise ==
    \A k \in 1 .. Len(hist) : hist[k].ret = "raised" =>
        /\ SendsStartedBy(k) = {}
        /\ am.last_alert_time >= hist[k].at
        /\ \A j \in k + 1 .. Len(hist) :
              hist[j].at - hist[k].at < cfg.cooldown_seconds => hist[j].ret = "false"

\* C36: send_alert commits last_alert_time before it persists: when writing the
\* image or the metadata raises, the exception leaves the call, no channel send
\* is started for it, the lock is free again and last_alert_time keeps the
\* committed value, so attempts within cooldown_seconds of it are rejected
C36_CommitBeforePersist == []C36_AfterRaise /\ [][C36_RaiseStep]_vars

\* the first call raised while persisting; a call 30 s later took the lock and was
\* rejected by the cooldown of the call that dispatched nothing
C36_Witness ==
    /\ Len(hist) >= 2
    /\ hist[1].ret = "raised"
    /\ hist[2].ret = "false"
    /\ hist[2].last = hist[1].at
    /\ hist[2].at > hist[1].at
    /\ sends = <<>>
    /\ am.alert_lock = "free"

\* the last call was update_zone on an existing zone with a list of fewer than 3
\* points
ShortUpdate ==
    /\ zlast.op = "update"
    /\ zlast.npts \in 0 .. 2
    /\ zlast.rest # <<>>

\* C38: update_zone on an existing zone with fewer than 3 points returns True and
\* leaves the zone's points and polygon as they were, while an alert_enabled or a
\* color passed in the same call is applied
C38_Step ==
    (zlast'.op = "update" /\ zlast'.npts \in 0 .. 2 /\ HasZone(zones, zlast'.id)) =>
        /\ zlast'.ok /\ ~zlast'.raised /\ zlast'.rest # <<>>
        /\ Len(zones') = Len(zones)
        /\ LET k == ZoneIndex(zones, zlast'.id)
               a == zlast'.rest.alert_enabled
               c == zlast'.rest.color
           IN /\ \A j \in 1 .. Len(zones) : j # k => zones'[j] = zones[j]
              /\ zones'[k].id = zones[k].id
              /\ zones'[k].points = zones[k].points
              /\ zones'[k].polygon = zones[k].polygon
              /\ zones'[k].alert_enabled = (IF a.given THEN a.val ELSE zones[k].alert_enabled)
              /\ zones'[k].color = (IF c.given THEN c.val ELSE zones[k].color)

C38_ShortListIgnored == [][C38_Step]_vars

\* a 2-point list was passed with alert_enabled FALSE and a colour: the flag and the
\* colour are the passed ones, the square stayed
C38_Witness ==
    /\ ShortUpdate
    /\ zlast.rest.alert_enabled = Arg(FALSE) /\ zlast.rest.color = Arg(Green)
    /\ LET z == zones[ZoneIndex(zones, zlast.id)]
       IN /\ ~z.alert_enabled
          /\ z.color = Green
          /\ z.points = Sq10

\* C17: channel sends are not awaited.  An admitted dispatch whose image and metadata
\* were persisted returns true and its caller goes on, whether or not its sends have
\* completed; a send that never completes blocks neither the start or the completion
\* of the other channel's send nor a later cooldown decision.
C17_SendsNotAwaited ==
    /\ []C17_NeverBlocked
    /\ [][\A t \in Callers :
            Leaves(t, {"email", "telegram", "ret"}) =>
               /\ callers[t].pc = "ret"
               /\ hist'[callers[t].k].ret = "true"
               /\ ~callers'[t].exc
               /\ sends' = sends]_vars

\* the email send of the first dispatch is still running (hung) while its telegram
\* send has completed, send_alert has returned true, and a later attempt was decided
C17_Witness ==
    /\ Len(hist) >= 2
    /\ hist[1].ret = "true" /\ hist[2].ret # "pending"
    /\ \A t \in Callers : callers[t].pc = "idle"
    /\ \E i, j \in 1 .. Len(sends) :
          /\ sends[i].k = 1 /\ sends[i].chan = "email" /\ sends[i].state = "started"
          /\ sends[j].k = 1 /\ sends[j].chan = "telegram" /\ sends[j].state = "ok"

\* the sends started for dispatch k on a channel
SendsOf(k, chan) == {i \in 1 .. Len(sends) : sends[i].k = k /\ sends[i].chan = chan}

\* the number of sends a dispatch that returned true has started on a channel
Due(enabled) == IF enabled THEN 1 ELSE 0

\* a dispatch that has ended without returning true has started no send; one still
\* inside send_alert has started at most one per enabled channel
C18_NoOtherSends ==
    \A k \in 1 .. Len(hist) :
        /\ hist[k].ret \in {"false", "raised"} =>
              SendsOf(k, "email") = {} /\ SendsOf(k, "telegram") = {}
        /\ hist[k].ret = "pending" =>
              /\ Cardinality(SendsOf(k, "email")) <= Due(cfg.email_enabled)
              /\ Cardinality(SendsOf(k, "telegram")) <= Due(cfg.telegram_enabled)

\* a send that has ended stays as it ended (it is not run again), a step that ends a
\* send leaves last_alert_time alone, and sends are started by a dispatch only
C18_SendStep ==
    /\ \A i \in 1 .. Len(sends) :
          /\ i <= Len(sends')
          /\ sends[i].state \in {"ok", "failed"} => sends'[i] = sends[i]
          /\ sends'[i] # sends[i] => am' = am
    /\ Len(sends') > Len(sends) =>
          \E t \in Callers : callers[t].pc \in {"email", "telegram"} /\ am' = am

\* C18 as stated: every admitted dispatch starts each enabled channel's send exactly
\* once and no disabled channel's send; a rejected dispatch starts none.
C18_EveryAdmittedSendsOnce ==
    /\ C18_NoOtherSends
    /\ \A k \in 1 .. Len(hist) :
          (Admitted(hist[k]) /\ hist[k].ret # "pending") =>
              /\ Cardinality(SendsOf(k, "email")) = Due(cfg.email_enabled)
              /\ Cardinality(SendsOf(k, "telegram")) = Due(cfg.telegram_enabled)

C18_ReturnedTrue ==
    \A k \in 1 .. Len(hist) :
        hist[k].ret = "true" =>
            /\ Cardinality(SendsOf(k, "email")) = Due(cfg.email_enabled)
            /\ Cardinality(SendsOf(k, "telegram")) = Due(cfg.telegram_enabled)

\* C18: a dispatch that was admitted and returned true has started each enabled
\* channel's send exactly once and no disabled channel's send; a rejected dispatch,
\* and an admitted one that an exception ended while it stored its files, has started
\* none; a failed send is not retried, and the outcome of a send never changes
\* last_alert_time from the value the gate committed.
C18_SendsStartedOnce ==
    /\ [](C18_NoOtherSends /\ C18_ReturnedTrue)
    /\ [][C18_SendStep]_vars

\* email only: the first dispatch returned true and its one send failed, the second
\* was rejected and started none, and last_alert_time is still that of the first
C18_Witness ==
    /\ cfg.email_enabled /\ ~cfg.telegram_enabled
    /\ Len(hist) = 2 /\ hist[1].ret = "true" /\ hist[2].ret = "false"
    /\ Len(sends) = 1 /\ sends[1].k = 1 /\ sends[1].state = "failed"
    /\ am.last_alert_time = hist[1].at

\* the calls test_alerts made to the send of a channel
TestSendsOf(chan) == {i \in 1 .. Len(ta.sent) : ta.sent[i].chan = chan}

\* what the last test_alerts call did for a channel: enabled, one send with the test
\* image and the one synthetic detection, whose result is the one reported; disabled,
\* no send and False reported
TestedChannel(chan, enabled) ==
    IF enabled
    THEN /\ Cardinality(TestSendsOf(chan)) = 1
         /\ \A i \in TestSendsOf(chan) :
               /\ ta.sent[i].ok = ta.results[chan]
               /\ ta.sent[i].dets = TestDetections /\ Len(ta.sent[i].dets) = 1
               /\ ta.sent[i].path = TestImagePath
    ELSE TestSendsOf(chan) = {} /\ ta.results[chan] = FALSE

C19_TestResults ==
    ta.calls > 0 =>
        /\ TestedChannel("email", cfg.email_enabled)
        /\ TestedChannel("telegram", cfg.telegram_enabled)

\* the time of the last dispatch admitted before attempt k, 0 when there is none
LastAdmittedBefore(k) ==
    LET earlier == {j \in 1 .. k - 1 : Admitted(hist[j])}
    IN IF earlier = {} THEN 0
       ELSE hist[CHOOSE j \in earlier : \A j2 \in earlier : j2 <= j].at

\* every send_alert attempt is decided on the time of the last admitted dispatch
C19_GateAsWithoutTest ==
    \A k \in 1 .. Len(hist) :
        /\ hist[k].last = LastAdmittedBefore(k)
        /\ IF cfg.enabled THEN Admitted(hist[k]) <=> CooldownOver(hist[k])
           ELSE hist[k].ret = "false"

\* a test_alerts call changes the test image and nothing else of the alert manager
C19_TestStep ==
    ta' # ta =>
        /\ am' = am /\ cfg' = cfg /\ hist' = hist /\ sends' = sends /\ callers' = callers
        /\ \A f \in files : f.path # TestImagePath => f \in files'
        /\ \A f \in files' : f.path # TestImagePath => f \in files

\* C19: test_alerts is independent of the cooldown gate: in any cooldown state it
\* calls the send of each enabled channel once, in its own thread, with one synthetic
\* detection, and reports that send's result; it reports False for a disabled channel
\* without calling its send (with every channel disabled nothing is sent), and it
\* leaves last_alert_time as it is, so that every send_alert attempt is gated on the
\* last admitted dispatch as if test_alerts had not been called.
C19_TestAlertsIndependent ==
    /\ [](C19_TestResults /\ C19_GateAsWithoutTest)
    /\ [][C19_TestStep]_vars

\* test_alerts was called right after an admitted dispatch, inside its cooldown: the
\* email send was called and reported delivered, telegram (disabled) reported False,
\* and the send_alert attempt that followed was rejected by the cooldown
C19_Witness ==
    /\ cfg.enabled /\ cfg.email_enabled /\ ~cfg.telegram_enabled
    /\ ta.calls = 1 /\ ta.hist_len = 1
    /\ ta.results = [email |-> TRUE, telegram |-> FALSE]
    /\ Len(ta.sent) = 1
    /\ Len(hist) = 2
    /\ hist[1].ret = "true" /\ hist[2].ret = "false"
    /\ hist[2].at = hist[1].at
    /\ am.last_alert_time = hist[1].at

\* with every channel disabled test_alerts sent nothing and reported False twice
C19_NothingSent ==
    /\ ~cfg.email_enabled /\ ~cfg.telegram_enabled
    /\ ta.calls = 1 /\ ta.sent = <<>>
    /\ ta.results = [email |-> FALSE, telegram |-> FALSE]

\* w2 is the window w after exactly one sample x was appended to it
AppendedOne(w, w2, x) ==
    /\ w2 # <<>> /\ w2[Len(w2)] = x
    /\ IF Len(w) < pm.max_samples
       THEN Len(w2) = Len(w) + 1 /\ \A i \in 1..Len(w) : w2[i] = w[i]
       ELSE Len(w2) = Len(w) /\ \A i \in 1..(Len(w) - 1) : w2[i] = w[i + 1]

WindowsOf(m) ==
    <<m.fps_samples, m.process_times, m.memory_samples, m.temperature_samples>>

\* the step is a stop_process_timer call
StopCall ==
    /\ Len(pm'.calls) = Len(pm.calls) + 1
    /\ pm'.calls[Len(pm'.calls)] = "stop"

\* a stop with no timer running leaves every window, the timer and the time of the last
\* tick as they were; a stop with a timer running appends the time since the last start
\* to the processing-time window, takes the stop as a frame-completion tick (the tick
\* time becomes now, and the interval since the previous tick, when positive, gives the
\* interval window one sample) and clears the timer
C20_StopStep ==
    StopCall =>
        IF ~pm.process_start_time.given
        THEN /\ WindowsOf(pm') = WindowsOf(pm)
             /\ pm'.process_start_time = pm.process_start_time
             /\ pm'.last_frame_time = pm.last_frame_time
        ELSE /\ AppendedOne(pm.process_times, pm'.process_times,
                            pm.now - pm.process_start_time.val)
             /\ pm'.last_frame_time = pm.now
             /\ IF pm.now > pm.last_frame_time
                THEN AppendedOne(pm.fps_samples, pm'.fps_samples,
                                 Fps(pm.now - pm.last_frame_time))
                ELSE pm'.fps_samples = pm.fps_samples
             /\ pm'.process_start_time = NoArg

\* the durations appended are as many as the stops that had a start since the previous
\* stop or reset
C20_Count == pm.appended = pm.valid_stops

\* after one start/stop pair with positive elapsed time the reported process time is
\* the elapsed time in milliseconds, which is more than 0
C20_Pair ==
    (pm.calls = <<"start", "stop">> /\ pm.process_times # <<>> /\ pm.process_times[1] > 0)
       => /\ get_process_time(pm).num > 0
          /\ get_process_time(pm) = [num |-> pm.process_times[1] * 1000, den |-> 1]

\* C20: stop_process_timer with no timer running changes nothing; with a timer running
\* it appends exactly one duration to the processing-time window, records one
\* frame-completion tick for the interval window and clears the timer.  So the
\* durations appended are as many as the stops that had a start since the previous
\* stop or reset, and after one start/stop pair with positive elapsed time the
\* reported process time is greater than 0.
C20_StopTimer == [](C20_Count /\ C20_Pair) /\ [][C20_StopStep]_vars

\* a stop with no timer, two starts and one stop have appended one duration, of the
\* time since the second start
C20_Witness ==
    /\ pm.calls = <<"stop", "start", "start", "stop">>
    /\ pm.appended = 1 /\ pm.valid_stops = 1
    /\ pm.process_times = <<1>>
    /\ pm.fps_samples # <<>>
    /\ ~pm.process_start_time.given

\* one start/stop pair with positive elapsed time
C20_PairDone ==
    /\ pm.calls = <<"start", "stop">>
    /\ pm.process_times = <<2>>
    /\ get_process_time(pm).num > 0

\* the last n elements of w
LastN(w, n) == SubSeq(w, Len(w) - n + 1, Len(w))

\* of the samples appended to a window since the last reset, those it should hold
Recent(window) ==
    LastN(pm.log[window], Min2(Len(pm.log[window]), pm.max_samples))

\* every window holds the most recent min(n, C) samples, in arrival order
C21_Holds ==
    \A window \in Windows :
        /\ pm[window] = Recent(window)
        /\ Len(pm[window]) <= pm.max_samples

\* each reported mean is the mean of the most recent min(n, C) samples
C21_Means ==
    /\ Recent("process_times") # <<>> =>
          get_process_time(pm) = [num |-> 1000 * SumSeq(Recent("process_times")),
                                  den |-> Len(Recent("process_times"))]
    /\ Recent("fps_samples") # <<>> =>
          get_fps(pm) = [num |-> FracSum(Recent("fps_samples")).num,
                         den |-> FracSum(Recent("fps_samples")).den
                                    * Len(Recent("fps_samples"))]
    /\ (Recent("memory_samples") # <<>> /\ pm.track_memory) =>
          get_memory_usage(pm) = [num |-> SumSeq(Recent("memory_samples")),
                                  den |-> Len(Recent("memory_samples"))]
    /\ (Recent("temperature_samples") # <<>> /\ pm.track_temperature) =>
          get_temperature(pm) = [num |-> SumSeq(Recent("temperature_samples")),
                                 den |-> Len(Recent("temperature_samples"))]

\* a window of capacity 3 fed 1, 2, 3, 4 (tenths of a second) holds 2, 3, 4
C21_Example == Push(3, Push(3, Push(3, Push(3, <<>>, 1), 2), 3), 4) = <<2, 3, 4>>

\* an append to a full window evicts the oldest sample and only that one
C21_Step ==
    \A window \in Windows :
        Len(pm'.log[window]) = Len(pm.log[window]) + 1 =>
            LET x == pm'.log[window][Len(pm'.log[window])]
            IN IF Len(pm[window]) = pm.max_samples
               THEN pm'[window] = Append(Tail(pm[window]), x)
               ELSE pm'[window] = Append(pm[window], x)

C21_FpsEvicted ==
    /\ pm.max_samples = 2
    /\ Len(pm.log["fps_samples"]) = 3
    /\ pm.fps_samples = <<Fps(1), Fps(1)>>

\* the monitor was just constructed or reset: no call was made on it since
Fresh(m) == m.calls = <<>> \/ m.calls[Len(m.calls)] = "reset"

\* all windows are empty, no timer is running and the four reports are 0
Cleared(m) ==
    /\ \A window \in Windows : m[window] = <<>>
    /\ ~TimerRunning(m)
    /\ get_fps(m) = Zero /\ get_process_time(m) = Zero
    /\ get_memory_usage(m) = Zero /\ get_temperature(m) = Zero

C22_FreshIsCleared == Fresh(pm) => Cleared(pm)

\* a stop issued on a fresh monitor, before any start, changes nothing
C22_StopIsNoOp ==
    (Fresh(pm) /\ StopCall) =>
        /\ WindowsOf(pm') = WindowsOf(pm)
        /\ pm'.process_start_time = pm.process_start_time
        /\ pm'.last_frame_time = pm.last_frame_time
        /\ Cleared(pm')

\* C22: after reset(), from any state of the monitor (also with a timer running), and
\* after construction, all windows are empty and no timer is running: fps, process
\* time, memory and temperature are reported as 0, and a stop_process_timer issued
\* before the next start_process_timer is a no-op.
C22_ResetClears == []C22_FreshIsCleared /\ [][C22_StopIsNoOp]_vars

\* a reset was made with a duration in the window and a timer running
C22_Witness ==
    /\ pm.calls = <<"start", "stop", "start", "reset">>
    /\ pm.appended = 1
    /\ pm.process_times = <<>> /\ ~TimerRunning(pm)

\* a stop was issued after a reset that found a timer running
C22_StoppedAfterReset ==
    /\ pm.calls = <<"start", "reset", "stop">>
    /\ pm.appended = 0 /\ Cleared(pm)

\* C8: while a dispatch persists its files or starts its sends the lock is free, so
\* an attempt waiting for its cooldown decision can take the lock at once.
C8_LockOnlyForCheckAndSet ==
    \A t, u \in Callers :
       (callers[t].pc \in {"img", "meta", "email", "telegram"} /\ callers[u].pc = "acquire")
          => am.alert_lock = "free"


(***************************************************************************)
(* Properties of the pipeline                                              *)
(***************************************************************************)

Ids(q) == [i \in 1 .. Len(q) |-> q[i].id]
ResultIds(q) == [i \in 1 .. Len(q) |-> q[i].frame.id]
FirstN(n) == [i \in 1 .. n |-> i]

\* frames the capture thread has offered to the frame queue
FramesOffered == obs.fetched - (IF pc["capture"] = "put" THEN 1 ELSE 0)

\* ids of the results the inference thread has offered to the result queue
ResultsOffered ==
    SubSeq(obs.dequeued, 1,
           Len(obs.dequeued) - (IF pc["process"] \in {"infer", "put", "dead"} THEN 1 ELSE 0))

C1_Bounded ==
    /\ Len(frame_queue) <= pcfg.queue_size
    /\ Len(result_queue) <= pcfg.queue_size
    /\ pc["capture"] = "put" => ENABLED CPut
    /\ pc["process"] = "put" => ENABLED PPut
    /\ obs.dequeued = <<>> =>
          /\ Ids(frame_queue) = FirstN(Min2(pcfg.queue_size, FramesOffered))
          /\ obs.dropped = (pcfg.queue_size + 1) .. FramesOffered
    /\ obs.consumed = <<>> =>
          /\ ResultIds(result_queue)
                = SubSeq(ResultsOffered, 1, Min2(pcfg.queue_size, Len(ResultsOffered)))
          /\ obs.rdropped = {ResultsOffered[i] :
                                i \in (pcfg.queue_size + 1) .. Len(ResultsOffered)}

C1_Offer ==
    /\ (pc["capture"] = "put" /\ pc'["capture"] # "put") =>
          /\ pc'["capture"] = "count"
          /\ frame_queue' = IF Len(frame_queue) < pcfg.queue_size
                            THEN Append(frame_queue, local["capture"])
                            ELSE frame_queue
    /\ (pc["process"] = "put" /\ pc'["process"] # "put") =>
          /\ pc'["process"] = "loop"
          /\ result_queue' = IF Len(result_queue) < pcfg.queue_size
                             THEN Append(result_queue, local["process"])
                             ELSE result_queue

\* the ids of the frames a result was enqueued for, or dropped for on a full queue
ResultFrames ==
    {result_queue[k].frame.id : k \in 1 .. Len(result_queue)}
        \cup {obs.consumed[k] : k \in 1 .. Len(obs.consumed)} \cup obs.rdropped

\* once the model call has failed for a frame the inference thread is dead, and every
\* result is of an earlier frame
C26_NoResultFromFailure ==
    obs.failed > 0 =>
        /\ pc["process"] = "dead"
        /\ \A id \in ResultFrames : id < obs.failed

\* a dead inference thread takes no frame and enqueues nothing
C26_DeadStep ==
    obs.failed > 0 =>
        /\ pc'["process"] = "dead"
        /\ obs'.dequeued = obs.dequeued
        /\ result_queue' = result_queue \/ result_queue' = Tail(result_queue)

\* C26: a failure of the model call is not isolated per frame: it propagates, the
\* inference stage terminates, and no result is enqueued for that frame or for any
\* frame after it.
C26_DetectorFailureEndsStage == []C26_NoResultFromFailure /\ [][C26_DeadStep]_vars

\* the model call failed on the second frame while the pipeline runs on: a later frame
\* waits in the frame queue and is never taken
C26_Witness ==
    /\ obs.failed = 2 /\ pc["process"] = "dead"
    /\ running /\ frame_queue # <<>>
    /\ ResultFrames = {1}

\* the frames fetched from the camera whose iteration of the capture loop is over
FetchedAndDone ==
    obs.fetched - (IF pc["capture"] \in {"put", "count"} THEN 1 ELSE 0)

C28_CountsFetched == frame_count = FetchedAndDone

C28_Step ==
    /\ frame_count' >= frame_count
    /\ frame_count' - frame_count <= 1
    /\ frame_count' # frame_count => pc["capture"] = "count"
    /\ (pc["capture"] = "read" /\ pc'["capture"] # "put") => frame_count' = frame_count
    /\ (pc["capture"] = "read" /\ pc'["capture"] = "put") => obs'.fetched = obs.fetched + 1

\* C28: the frame counter of the capture stage never decreases; it has grown by
\* exactly one for every frame fetched from the camera once the iteration that
\* fetched it is over, whether the frame went into the queue or was dropped on a
\* full queue, and a failed fetch leaves it as it is
C28_FrameCounter == []C28_CountsFetched /\ [][C28_Step]_vars

\* a frame dropped on the full queue has been counted, after an earlier frame
C28_Witness ==
    /\ pc["capture"] = "loop"
    /\ frame_count >= 2
    /\ frame_count \in obs.dropped

\* a failed fetch of the camera ended the capture loop after counted frames
C28_FailedFetch ==
    /\ pc["capture"] = "done"
    /\ ~pcfg.reconnect_on_failure
    /\ frame_count \in 1 .. MaxFrames - 1
    /\ frame_count = obs.fetched

\* obs.saves has one entry for every result with detections the output stage has
\* handled: whether its frame was saved. From a saved one on, every N-th is saved
\* and the N - 1 between two saved ones are not
EveryNth(saves, n) ==
    \A i \in 1 .. Len(saves) : saves[i] =>
        \A k \in i + 1 .. Len(saves) : saves[k] <=> (k - i) % n = 0

\* C29: among the results with detections that reach the output stage every N-th is
\* saved, N - 1 of them being skipped between two saved ones, whatever the number of
\* frames captured in between
C29_EveryNthSaved == EveryNth(obs.saves, pcfg.frame_save_interval)

\* what the code keeps: a frame is saved only with detections and only when the
\* capture counter has advanced by the interval since the last saved frame
C29_SaveStep ==
    (pc["output"] = "save" /\ pc'["output"] = "loop") =>
        /\ Len(obs'.saves) > Len(obs.saves) <=> local["output"].detections # <<>>
        /\ last_saved_frame' # last_saved_frame =>
              /\ local["output"].detections # <<>>
              /\ last_saved_frame' = frame_count
              /\ frame_count - last_saved_frame >= pcfg.frame_save_interval
              /\ obs'.saves = Append(obs.saves, TRUE)
        /\ (local["output"].detections # <<>>
              /\ frame_count - last_saved_frame >= pcfg.frame_save_interval)
             => obs'.saves = Append(obs.saves, TRUE)

C29_SavesByCaptureCounter == [][C29_SaveStep]_vars

\* with the interval 1, a frame with detections was saved and the next result with
\* detections was not: no frame had been captured since the save
C29_SkippedAtIntervalOne ==
    /\ pcfg.frame_save_interval = 1
    /\ obs.saves = <<TRUE, FALSE>>

\* with the interval 1, the first result with detections was handled before the
\* capture thread counted its frame, and was not saved
C29_FirstNotSaved ==
    /\ pcfg.frame_save_interval = 1
    /\ obs.saves = <<FALSE>>

\* the output thread holds a result with detections and is about to decide on the
\* alert, at a time the dispatcher's gate admits
AtGateOpen ==
    /\ pc["output"] = "alert"
    /\ local["output"].detections # <<>>
    /\ cfg.enabled
    /\ ~CooldownActive(clock)

C30_Step ==
    (AtGateOpen /\ pc'["output"] # "alert") => pc'["output"] = "send_alert"

\* C30: in the running pipeline a result with detections that reaches the output
\* stage at a time now with now - last_dispatch_time >= cooldown_seconds, equality
\* included, is handed to the dispatcher and dispatched: the output stage has no
\* check of its own that suppresses it
C30_DispatcherGateDecides == [][C30_Step]_vars

\* what the code keeps: the output stage calls send_alert iff the result has
\* detections and its own test, strict and on its own last_alert_time, passes;
\* that time is never earlier than the dispatcher's, so the dispatcher admits
\* every call it gets
C30_OutputStep ==
    (pc["output"] = "alert" /\ pc'["output"] # "alert") =>
        (pc'["output"] = "send_alert"
            <=> local["output"].detections # <<>> /\ ShouldSendAlert)

C30_OutputTimeLater ==
    /\ (pc["output"] \notin {"send_alert", "dead"}) => last_alert_time >= am.last_alert_time
    /\ (pc["output"] = "alert" /\ ShouldSendAlert) => ~CooldownActive(clock)

C30_OutputGateDecides == []C30_OutputTimeLater /\ [][C30_OutputStep]_vars

\* a result with detections exactly cooldown_seconds after the last dispatch:
\* the dispatcher's gate is open, the test of the output stage fails
C30_SuppressedAtEquality ==
    /\ AtGateOpen
    /\ am.last_alert_time > 0
    /\ clock - am.last_alert_time = cfg.cooldown_seconds
    /\ ~ShouldSendAlert

\* a result with detections more than cooldown_seconds after the last dispatch but
\* not after the return of that send_alert call
C30_SuppressedByLaterTime ==
    /\ AtGateOpen
    /\ am.last_alert_time > 0
    /\ clock - am.last_alert_time > cfg.cooldown_seconds
    /\ ~ShouldSendAlert

\* the results of the send_alert calls that have ended
Returned == {hist[k].ret : k \in 1 .. Len(hist)} \ {"pending"}

\* the original reading: the dispatcher's time is never later than the output
\* stage's, in every state, and every call returns true
C31_GatesAgreeAlways ==
    cfg.enabled =>
        /\ am.last_alert_time <= last_alert_time
        /\ Returned \subseteq {"true"}

C31_GatesAgree ==
    cfg.enabled =>
        /\ (pc["output"] \notin {"send_alert", "dead"})
              => am.last_alert_time <= last_alert_time
        /\ (pc["output"] = "alert" /\ ShouldSendAlert) => ~Suppressed("output", clock)
        /\ Returned \subseteq {"true", "raised"}

C31_CallStep ==
    (cfg.enabled /\ callers["output"].pc = "acquire" /\ callers'["output"].pc # "acquire")
        => callers'["output"].pc = "img"

\* C31: with alerts enabled, whenever the output stage is not inside a send_alert
\* call the dispatcher's last_alert_time is at most the output stage's, so a
\* result the output stage's own test admits is admitted by the dispatcher's gate
\* too; the call returns true unless persisting the snapshot raises
C31_GatesNeverDisagree == []C31_GatesAgree /\ [][C31_CallStep]_vars

\* a second alert, more than cooldown_seconds after the first, passed both gates
C31_Witness ==
    /\ cfg.enabled
    /\ Len(hist) = 2
    /\ hist[2].ret = "true"
    /\ hist[2].at - hist[2].last > cfg.cooldown_seconds
    /\ hist[2].last > 0

\* inside a send_alert call the dispatcher has committed the new time and the
\* output stage still holds the old one
C31_DispatcherAhead ==
    /\ cfg.enabled
    /\ pc["output"] = "send_alert"
    /\ am.last_alert_time > last_alert_time

\* the send_alert call of the output stage has ended and handle_output goes on
AfterSendAlert ==
    /\ pc["output"] = "send_alert"
    /\ pc'["output"] = "display"

C32_Step ==
    (AfterSendAlert /\ hist[Len(hist)].ret = "false") => last_alert_time' = last_alert_time

\* C32: the output stage advances its own last_alert_time only when send_alert
\* returned true; a call that returned false, with alerts disabled too, leaves the
\* output stage's cooldown timestamp as it was
C32_RecordedOnlyWhenSent == [][C32_Step]_vars

\* what the code keeps: the value send_alert returns is not looked at, and the
\* timestamp is set to the time of the return after every call that returned
C32_AnyReturnStep ==
    /\ AfterSendAlert => last_alert_time' = clock
    /\ last_alert_time' # last_alert_time => AfterSendAlert

C32_RecordedAfterAnyReturn == [][C32_AnyReturnStep]_vars

\* alerts are disabled, nothing was dispatched, and the output stage has recorded
\* an alert as sent
C32_RecordedWhileDisabled ==
    /\ ~cfg.enabled
    /\ last_alert_time > 0
    /\ Returned = {"false"}
    /\ files = {} /\ sends = <<>>

\* C33: no stage ends alone: whenever one of the three stages has left its loop,
\* for whatever reason, the running flag is false
C33_NoStageDiesAlone == (\E s \in Stages : Terminated(s)) => ~running

\* what the code keeps: a stage that left its loop at the loop test or at a break
\* saw or made the flag false, and the flag never goes back to true; a stage ended
\* by an exception leaves the flag as it is
C33_DoneStep ==
    /\ \A s \in Stages : (pc[s] # "done" /\ pc'[s] = "done") => ~running'
    /\ \A s \in Stages : (pc[s] # "dead" /\ pc'[s] = "dead") => running' = running
    /\ (pc["main"] # "init" /\ ~running) => ~running'

C33_OnlyOrderlyExitStops == [][C33_DoneStep]_vars

\* the inference stage was ended by a failure of the model call and the other two
\* stages are in their loops with the flag true: the main thread waits in a join
C33_RunsWithoutInference ==
    /\ pc["process"] = "dead"
    /\ running
    /\ pc["capture"] = "count" /\ pc["output"] = "get"
    /\ pc["main"] = "join_capture"
    /\ QueueFull(frame_queue, pcfg.queue_size)

\* the capture stage was ended by setup_camera raising and the flag is true
C33_RunsWithoutCapture ==
    /\ pc["capture"] = "dead"
    /\ running
    /\ pc["main"] = "join_capture"

Increasing(ids) == \A i, j \in 1 .. Len(ids) : i < j => ids[i] < ids[j]

\* a result: the frame as the camera delivered it, with the detections of that frame
Paired(r) ==
    /\ r.frame.box = SceneBox(r.frame.id)
    /\ r.detections = Detections(r.frame)

\* C34: under every interleaving the frames the output stage has dequeued, followed
\* by those waiting in the result queue, are frames the capture stage fetched, in
\* capture order and without duplicates; so are the frames the inference stage
\* took, followed by those in the frame queue; each result holds a frame with the
\* detections computed from that frame
C34_OrderPreserved ==
    /\ Increasing(obs.consumed \o ResultIds(result_queue))
    /\ Increasing(obs.dequeued \o Ids(frame_queue))
    /\ \A i \in 1 .. Len(obs.consumed) :
          /\ obs.consumed[i] \in 1 .. obs.fetched
          /\ \E j \in 1 .. Len(obs.dequeued) : obs.dequeued[j] = obs.consumed[i]
    /\ \A i \in 1 .. Len(result_queue) : Paired(result_queue[i])
    /\ pc["output"] \in {"alert", "send_alert", "display", "save"} =>
          /\ Paired(local["output"])
          /\ local["output"].frame.id = obs.consumed[Len(obs.consumed)]

\* frames 1 and 3 came out in this order, frame 2 was lost on the way
C34_Witness ==
    /\ obs.consumed = <<1, 3>>
    /\ 2 \in obs.dropped \cup obs.rdropped
    /\ pc["output"] = "alert"
    /\ local["output"].detections # <<>>

InFrameQueue(i) == \E k \in 1 .. Len(frame_queue) : frame_queue[k].id = i
InResultQueue(i) == \E k \in 1 .. Len(result_queue) : result_queue[k].frame.id = i
Dequeued(i) == \E k \in 1 .. Len(obs.dequeued) : obs.dequeued[k] = i
Consumed(i) == \E k \in 1 .. Len(obs.consumed) : obs.consumed[k] = i
\* the inference stage is through with frame i: its result was offered to the
\* result queue
Processed(i) == Consumed(i) \/ InResultQueue(i) \/ i \in obs.rdropped
\* the flag went false or a call of the model raised
Excused == ~running \/ obs.failed # 0

\* C35: as long as the flag stays true and every call of the model returns, under
\* fair scheduling of the stages every frame accepted into the frame queue is
\* dequeued and processed by the inference stage and every result accepted into
\* the result queue is consumed by the output stage
C35_Progress ==
    \A i \in 1 .. MaxFrames :
        /\ InFrameQueue(i) ~> (Processed(i) \/ Excused)
        /\ InResultQueue(i) ~> (Consumed(i) \/ Excused)

\* what the code keeps: the same, unless an exception that left send_alert has
\* ended the output stage
C35_ProgressUnlessOutputDied ==
    \A i \in 1 .. MaxFrames :
        /\ InFrameQueue(i) ~> (Processed(i) \/ Excused)
        /\ InResultQueue(i) ~> (Consumed(i) \/ Excused \/ pc["output"] = "dead")

\* the output stage was ended by an exception of send_alert; the flag is true, no
\* call of the model has failed, and the result of frame 3 lies in the result
\* queue with every stage at rest or gone
C35_ResultStranded ==
    /\ pc["output"] = "dead"
    /\ running /\ obs.failed = 0
    /\ InResultQueue(3)
    /\ obs.fetched = MaxFrames
    /\ frame_queue = <<>>
    /\ pc["process"] \in {"loop", "get"}

\* the metadata records of the alerts persisted so far
AlertRecords == {f \in files : f.path.dir = "alerts" /\ f.path.ext = "json"}

\* C37: the output stage calls the dispatcher only for results with at least one
\* detection, so every send_alert call of the pipeline, every alert record
\* persisted and every channel send started holds at least one detection
C37_AlertsHaveDetections ==
    /\ callers["output"].pc # "idle" => callers["output"].dets # <<>>
    /\ pc["output"] = "send_alert" => local["output"].detections # <<>>
    /\ \A f \in AlertRecords : f.data # <<>>
    /\ \A i \in 1 .. Len(sends) : sends[i].dets # <<>>

\* an alert was dispatched for frame 1; the result of frame 2, without detections,
\* came more than cooldown_seconds later and passed without a send_alert call
C37_Witness ==
    /\ pc["output"] = "display"
    /\ local["output"].frame.id = 2
    /\ local["output"].detections = <<>>
    /\ ShouldSendAlert
    /\ Len(hist) = 1 /\ hist[1].ret = "true"
    /\ AlertRecords # {}
    /\ sends # <<>>

\* the measurement phase of the benchmark is over: no warmup read failed and no
\* model call raised
Measured == bm.pc = "done" /\ bm.ret # "None" /\ bm.raised # "model"

\* C39: the frames_processed of the benchmark report is the number of frames
\* fetched and processed in the measurement phase, for every requested number
\* of frames, 0 included, and wherever the camera fails in the measurement loop
C39_ReportCountsProcessed ==
    Measured => (bm.ret = "results" /\ bm.frames_processed = bm.processed)

\* what the code keeps: the report counts the passes of the measurement loop that
\* were begun, the one whose read failed included, and there is no report when no
\* pass was begun
C39_ReportCountsPasses ==
    Measured =>
        /\ bm.frames = 0 <=> bm.raised = "UnboundLocalError"
        /\ bm.frames > 0 =>
              /\ bm.ret = "results"
              /\ bm.frames_processed = bm.processed + (IF bm.broke THEN 1 ELSE 0)
              /\ bm.frames_processed = bm.i + 1

\* 3 frames asked for, the camera failed at the second read of the measurement
\* loop: one frame was processed, the report says 2
C39_OneTooMany ==
    /\ Measured /\ bm.ret = "results"
    /\ bm.frames = 3 /\ bm.broke
    /\ bm.processed = 1 /\ bm.frames_processed = 2

\* 0 frames asked for: no report
C39_NoReportForZero ==
    /\ Measured
    /\ bm.frames = 0
    /\ bm.ret = "" /\ bm.raised = "UnboundLocalError"

\* C1: an offer to the frame queue or to the result queue of capacity N is accepted iff
\* the queue holds fewer than N items and is otherwise dropped, the producer going on
\* in either case; with no dequeue in between exactly the first N offers are accepted;
\* neither queue ever holds more than N items.
C1_QueueDropPolicy == []C1_Bounded /\ [][C1_Offer]_vars

C1_Witness ==
    /\ pcfg.queue_size = 1
    /\ obs.dequeued = <<>>
    /\ FramesOffered = 3
    /\ Ids(frame_queue) = <<1>>
    /\ obs.dropped = {2, 3}
    /\ pc["capture"] = "count"

PipeStarted == pc["main"] # "init"
Stopped == PipeStarted /\ ~running
AllExited == \A s \in Stages : Terminated(s)

\* C5: once the running flag is false it stays false, every stage then leaves its loop,
\* and a consumer meets at most one dequeue timeout after the flag went false.
C5_CooperativeShutdown ==
    /\ [][Stopped => ~running']_vars
    /\ Stopped ~> AllExited
    /\ [](\A s \in Consumers : obs.late[s] <= 1)

C5_Witness ==
    /\ Stopped
    /\ \A s \in Stages : pc[s] = "done"
    /\ \A s \in Consumers : obs.late[s] = 1

\* C9: the camera is released only after the three workers have terminated.
C9_JoinedBeforeRelease == cap = "released" => AllExited

================================================================
